---- MODULE Spec2Model ----
(***************************************************************************)
(* A state-machine model of signal-bot's asynchronous core:                *)
(*   - the RPC correlation engine  (SignalBotImpl.__json_rpc,              *)
(*     handle_response, the per-request timeout),                          *)
(*   - the transport listen loop   (SubprocessTransport / TcpTransport),   *)
(*   - the session lifecycle       (SignalBotImpl.run / stop),             *)
(*   - the event router            (__receive, __handle_data_message,      *)
(*     Personality.personality_handle_message),                            *)
(*   - the cron scheduler          (Personality.start_crons, _cron_repeat, *)
(*     stop_crons).                                                        *)
(*                                                                         *)
(* asyncio runs everything on one cooperative loop: code between two       *)
(* awaits is atomic.  Every action below is one such atomic section (a     *)
(* whole synchronous call, or the part of a coroutine between two          *)
(* suspension points).                                                     *)
(***************************************************************************)
EXTENDS Integers, Sequences, FiniteSets, TLC

(***************************************************************************)
(* Bounds of the model (not program constants).                            *)
(***************************************************************************)
\* requests sent through __json_rpc over a run of the session
MaxRequests == 1
\* requests sent through __json_rpc over a run of the request pipeline
MaxSends == 2
\* response and noise lines the relay writes to the stream over a run
MaxLines == 1
\* notification lines the relay writes to the stream over a run
MaxNotifications == 2
\* data messages the relay delivers over a run of the dispatch model
MaxMessages == 1
\* frames of any kind the relay writes over a run of the listen loop
MaxFrames == 2
\* stop() calls that pass the guard over a run
MaxStops == 2
\* how far the clock of the cron scheduler runs
MaxTime == 4

\* the requests a run may send, in the order of the calls
Keys == 1..MaxSends

\* the requests a run of the session sends
SessionKeys == 1..MaxRequests

(***************************************************************************)
(* Small helpers on sequences.                                             *)
(***************************************************************************)
Range(s) == {s[i] : i \in 1..Len(s)}

Min(S) == CHOOSE x \in S : \A y \in S : x <= y

\* list.remove(e): drops the first occurrence of e
ListRemove(s, e) ==
  LET hits == {i \in 1..Len(s) : s[i] = e}
  IN  IF hits = {} THEN s
      ELSE LET k == Min(hits)
           IN  [i \in 1..(Len(s) - 1) |-> IF i < k THEN s[i] ELSE s[i + 1]]

VARIABLES
  \* ---- RPC correlation (SignalBotImpl.__json_rpc) ----
  futures,        \* key -> the Future created for the request
  t_handles,      \* key -> the loop.call_later handle of cancel_timer
  write_tasks,    \* key -> the task running transport.write(request)
  WAITERS,        \* the class-level dict key -> check_return, in insertion order
  cancelable,     \* SignalBotImpl.__cancelable, a list of handles and tasks; the
                  \* lists of the sessions of the process are kept merged in
                  \* append order, own_cancelable is the list of this session
  outbound,       \* request frames written to the transport, in write order
  \* ---- transport ----
  inbound,        \* lines the relay has written and listen() has not read yet
  lines_emitted,  \* how many lines the relay has written so far
  listen_state,   \* position of transport.listen()
  listen_error,   \* the exception that escaped listen(), if any
  run_state,      \* position of SignalBotImpl.run()
  \* ---- stop() ----
  stopping,       \* the class-level asyncio.Event __stopping
  stop_state,     \* position of the stop() call in progress
  stop_wait,      \* the tasks handed to asyncio.wait by stop()
  terminate_calls, \* how often transport.terminate() has been called
  terminate_view, \* what was still live when terminate() was last called
  stops_completed, \* how many stop() calls have run to their end
  peer,           \* a second SignalBotImpl of the process: the requests it sent
                  \* and the position and outcomes of its stop() calls
  \* ---- cron scheduler (Personality) ----
  now,            \* the clock (datetime.now() and loop.time())
  cron_hooks,     \* group -> Personality._cron_hooks, the registered CronItems
  crons,          \* group -> the timer handles of the group: those of the list
                  \* Personality._crons (listed) and those that were deleted
                  \* from the list while the loop still holds them
  cron_tasks,     \* cron callbacks that were started and have not completed
  callback_exceptions, \* the calls of handle_callback_exception: callback, return value
  \* ---- event router ----
  start_time,     \* SignalBotImpl.__start_time
  personalities,  \* SignalBotImpl.__personalities, in registration order
  contexts,       \* group -> Personality._contexts
  message_hooks,  \* group -> Personality._message_hooks
  prefix_hooks,   \* group -> Personality._prefix_hooks (insertion-ordered dict)
  keyword_hooks,  \* group -> Personality._keyword_hooks (insertion-ordered dict)
  mention_hooks,  \* group -> Personality._mention_hooks (insertion-ordered dict)
  dispatch_tasks, \* the __handle_data_message tasks created by __receive
  hook_calls,     \* every hook invocation so far: line by line, those of one line
                  \* in the order they were made
  last_branch     \* the handler the last frame went to: handle_response, or the branch
                  \* handle_notification left by

rpc_vars == <<futures, t_handles, write_tasks, WAITERS, cancelable, outbound>>

transport_vars == <<inbound, lines_emitted, listen_state, listen_error, run_state>>

stop_vars == <<stopping, stop_state, stop_wait, terminate_calls, terminate_view, stops_completed, peer>>

cron_vars == <<now, cron_hooks, crons, cron_tasks, callback_exceptions>>

hook_tables == <<personalities, contexts, message_hooks, prefix_hooks, keyword_hooks, mention_hooks>>

route_vars == <<start_time, hook_tables, dispatch_tasks, hook_calls, last_branch>>

vars == <<rpc_vars, transport_vars, stop_vars, cron_vars, route_vars>>

(***************************************************************************)
(* Wire frames.  A decoded frame is a record whose DOMAIN is the set of    *)
(* keys of the JSON object.                                                *)
(***************************************************************************)
\* faulty variant of uuid4: every request gets the same id
uuid4_reused(key) == 100

\* str(uuid4()): a fresh id per request, never equal to an earlier one
uuid4(key) == 100 + key

\* an id no request of this session ever carried
StaleId == uuid4(0)

request_id(key) == uuid4(key)

\* the JSON object {}
EmptyResult == <<>>

Results == {EmptyResult}

ErrorBodies == {[code |-> -1, message |-> "e1"]}

ResultFrame(id, res) == [jsonrpc |-> "2.0", id |-> id, result |-> res]

ErrorFrame(id, err) == [jsonrpc |-> "2.0", id |-> id, error |-> err]

\* a line of the stream: the bytes of one JSON object, or bytes json.loads rejects
JsonLine(obj) == [text |-> "json", obj |-> obj]

GarbageLine == [text |-> "garbage"]

\* b'' (end of stream) and b'\n'
EmptyLine == [text |-> "empty"]

\* json.loads(line): the decoded object, or JSONDecodeError
json_loads_ok(line) == line.text = "json"

json_loads(line) == line.obj

\* faulty variant of IsResponse: only a frame with a result is a response
IsResponse_result_only(obj) == "result" \in DOMAIN obj

\* match obj: case {'result': _} | {'error': _}
IsResponse(obj) == "result" \in DOMAIN obj \/ "error" \in DOMAIN obj

\* Python's None, where a text or a payload may be missing
None == <<"<None>">>

(***************************************************************************)
(* Futures.                                                                *)
(***************************************************************************)
NoFuture == [state |-> "NONE"]

PendingFuture == [state |-> "PENDING"]

\* future.set_result(ret)
set_result(ret) == [state |-> "FINISHED", kind |-> "result", value |-> ret]

\* future.set_exception(SignalRpcException(error['message'], ret))
SignalRpcException(message, body) ==
  [state |-> "FINISHED", kind |-> "SignalRpcException", message |-> message, body |-> body]

\* future.set_exception(TimeoutError(...))
TimeoutError(key) ==
  [state |-> "FINISHED", kind |-> "TimeoutError", request_id |-> request_id(key)]

CancelledFuture == [state |-> "CANCELLED"]

\* Response(frame): what the caller of a send_* method gets from the frame
\* its future resolved to; frame.get('result', None)
Response(frame) == [result |-> IF "result" \in DOMAIN frame THEN frame.result ELSE None]

created(key) == futures[key].state # "NONE"

done(key) == futures[key].state \in {"FINISHED", "CANCELLED"}

(***************************************************************************)
(* SignalBotImpl.send_message(to, message): the calls of a run go in turn  *)
(* to an account and to a group.                                           *)
(***************************************************************************)
\* the account of the bot
BotAccount == "+15550000"

\* a group id: 44 characters of base 64
GroupDestination == "QUJDREVGR0hJSktMTU5PUFFSU1RVVldYWVowMTIzNDU="

\* the arguments of the call that makes the request `key`
send_call(key) ==
  IF key % 2 = 1
    THEN [to |-> "+15551234567", message |-> "hi"]
    ELSE [to |-> GroupDestination, message |-> "hi"]

\* faulty variant of send_message_kwargs: every destination is a recipient
send_message_kwargs_recipient(to, message) == [recipient |-> to, message |-> message]

\* kwargs = {('groupId' if len(to) == 44 else 'recipient'): to}, and message
send_message_kwargs(to, message) ==
  IF Len(to) = 44
    THEN [groupId |-> to, message |-> message]
    ELSE [recipient |-> to, message |-> message]

\* the request frame of __json_rpc: params.update({"account": self.__account})
request(id, method, params) ==
  [jsonrpc |-> "2.0", id |-> id, method |-> method,
   params |-> [account |-> BotAccount] @@ params]

\* the frame the write task of the request `key` holds
send_request(key) ==
  request(request_id(key), "send",
          send_message_kwargs(send_call(key).to, send_call(key).message))

(***************************************************************************)
(* SignalBotImpl.__json_rpc: one call, atomic (it has no await).           *)
(***************************************************************************)
\* faulty variant of json_rpc: the write task is created and the call returns
\* before the timeout is armed and the waiter is registered
json_rpc_unregistered(key) ==
  /\ ~created(key)
  /\ \A k \in Keys : k < key => created(k)
  /\ futures' = [futures EXCEPT ![key] = PendingFuture]
  /\ write_tasks' = [write_tasks EXCEPT ![key] = "created"]
  /\ cancelable' = Append(cancelable, <<"task", key>>)
  /\ UNCHANGED <<t_handles, WAITERS, outbound, transport_vars, stop_vars, cron_vars, route_vars>>

json_rpc(key) ==
  /\ ~created(key)
  /\ \A k \in Keys : k < key => created(k)
  /\ futures' = [futures EXCEPT ![key] = PendingFuture]
  /\ t_handles' = [t_handles EXCEPT ![key] = "armed"]
  /\ WAITERS' = Append(WAITERS, key)
  /\ write_tasks' = [write_tasks EXCEPT ![key] = "created"]
  /\ cancelable' = cancelable \o << <<"t_handle", key>>, <<"task", key>> >>
  /\ UNCHANGED <<outbound, transport_vars, stop_vars, cron_vars, route_vars>>

(***************************************************************************)
(* The write task: transport.write(request) writes the frame on its first  *)
(* step and then awaits drain().  The loop starts ready tasks in creation  *)
(* order.                                                                  *)
(***************************************************************************)
\* faulty variant of write_start: the loop starts the write tasks in any order
write_start_unordered(key) ==
  /\ write_tasks[key] = "created"
  /\ outbound' = Append(outbound, send_request(key))
  /\ write_tasks' = [write_tasks EXCEPT ![key] = "draining"]
  /\ UNCHANGED <<futures, t_handles, WAITERS, cancelable, transport_vars, stop_vars, cron_vars, route_vars>>

write_start(key) ==
  /\ write_tasks[key] = "created"
  /\ \A k \in Keys : k < key => write_tasks[k] # "created"
  /\ outbound' = Append(outbound, send_request(key))
  /\ write_tasks' = [write_tasks EXCEPT ![key] = "draining"]
  /\ UNCHANGED <<futures, t_handles, WAITERS, cancelable, transport_vars, stop_vars, cron_vars, route_vars>>

write_done(key) ==
  /\ write_tasks[key] = "draining"
  /\ write_tasks' = [write_tasks EXCEPT ![key] = "done"]
  /\ UNCHANGED <<futures, t_handles, WAITERS, cancelable, outbound, transport_vars, stop_vars, cron_vars, route_vars>>

\* a task whose cancel() was requested ends with CancelledError at its next step
write_cancelled(key) ==
  /\ write_tasks[key] = "cancelling"
  /\ write_tasks' = [write_tasks EXCEPT ![key] = "cancelled"]
  /\ UNCHANGED <<futures, t_handles, WAITERS, cancelable, outbound, transport_vars, stop_vars, cron_vars, route_vars>>

(***************************************************************************)
(* __json_rpc.cancel_timer: the call_later callback.                       *)
(***************************************************************************)
\* faulty variant of waiters_pop: the timeout leaves its waiter in the table
waiters_keep(key) == WAITERS

\* self.__WAITERS.pop(key, None)
waiters_pop(key) == SelectSeq(WAITERS, LAMBDA k : k # key)

\* faulty variant of cancel_timer: the callback runs and resolves nothing
cancel_timer_silent(key) ==
  /\ t_handles[key] = "armed"
  /\ t_handles' = [t_handles EXCEPT ![key] = "fired"]
  /\ UNCHANGED <<futures, WAITERS, write_tasks, cancelable, outbound, transport_vars, stop_vars, cron_vars, route_vars>>

cancel_timer(key) ==
  /\ t_handles[key] = "armed"
  /\ t_handles' = [t_handles EXCEPT ![key] = "fired"]
  /\ IF ~done(key)
       THEN /\ futures' = [futures EXCEPT ![key] = TimeoutError(key)]
            /\ WAITERS' = waiters_pop(key)
       ELSE UNCHANGED <<futures, WAITERS>>
  /\ UNCHANGED <<write_tasks, cancelable, outbound, transport_vars, stop_vars, cron_vars, route_vars>>

(***************************************************************************)
(* The caller gives up on a request: cancelling the task a send_* method   *)
(* returned cancels the future it awaits.                                  *)
(***************************************************************************)
caller_cancel(key) ==
  /\ futures[key].state = "PENDING"
  /\ futures' = [futures EXCEPT ![key] = CancelledFuture]
  /\ UNCHANGED <<t_handles, write_tasks, WAITERS, cancelable, outbound, transport_vars, stop_vars, cron_vars, route_vars>>

(***************************************************************************)
(* handle_response: scans the waiters in insertion order and calls each    *)
(* one's check_return until one returns True; a check_return of another id *)
(* returns False without an effect.                                        *)
(***************************************************************************)
\* faulty variant of handle_cancel: cancel() leaves the handle armed
handle_cancel_ignored(st) == st

\* faulty variant of handle_cancel: cancel() on a cancelled handle arms it again
handle_cancel_toggles(st) ==
  IF st = "armed" THEN "cancelled" ELSE IF st = "cancelled" THEN "armed" ELSE st

\* TimerHandle.cancel(): a handle that already ran stays as it is
handle_cancel(st) == IF st = "armed" THEN "cancelled" ELSE st

\* faulty variant of first_match: the first waiter takes every response
first_match_any(response) == IF WAITERS = <<>> THEN 0 ELSE WAITERS[1]

\* the key of the first waiter whose check_return sees its own id, or 0
first_match(response) ==
  LET hits == {i \in 1..Len(WAITERS) : request_id(WAITERS[i]) = response.id}
  IN  IF hits = {} THEN 0 ELSE WAITERS[Min(hits)]

\* faulty variant of check_return_outcome: the error case is missing
check_return_outcome_no_error_case(ret) == set_result(ret)

\* what check_return sets on the future: case {'error': error} comes first
check_return_outcome(ret) ==
  IF "error" \in DOMAIN ret
    THEN SignalRpcException(ret.error.message, ret)
    ELSE set_result(ret)

\* check_return(ret) of the request `key`, for a frame carrying its id.
\* set_result / set_exception on a future that is already done raises
\* InvalidStateError, and the rest of check_return does not run.
check_return(key, ret) ==
  IF done(key)
    THEN [raised |-> "InvalidStateError", futures |-> futures,
          t_handles |-> t_handles, cancelable |-> cancelable, matched |-> FALSE]
    ELSE [raised |-> IF <<"t_handle", key>> \in Range(cancelable)
                       THEN "none" ELSE "ValueError",
          futures |-> [futures EXCEPT ![key] = check_return_outcome(ret)],
          t_handles |-> [t_handles EXCEPT ![key] = handle_cancel(@)],
          cancelable |-> ListRemove(cancelable, <<"t_handle", key>>),
          matched |-> <<"t_handle", key>> \in Range(cancelable)]

\* SignalBotImpl.handle_response(response): the new values of the RPC state
\* and the exception that escapes, if any
handle_response(response) ==
  LET key == first_match(response)
  IN  IF key = 0
        THEN [raised |-> "none", futures |-> futures, t_handles |-> t_handles,
              cancelable |-> cancelable, WAITERS |-> WAITERS]
        ELSE LET r == check_return(key, response)
             IN  [raised |-> r.raised, futures |-> r.futures,
                  t_handles |-> r.t_handles, cancelable |-> r.cancelable,
                  WAITERS |-> IF r.matched
                                THEN SelectSeq(WAITERS, LAMBDA k : k # key)
                                ELSE WAITERS]

(***************************************************************************)
(* Message text.  A text is a tuple of one-character strings; None is a    *)
(* value no text equals.                                                   *)
(***************************************************************************)

\* str.lower() on the letters the model's texts use
Lower(c) ==
  CASE c = "C" -> "c"
    [] c = "A" -> "a"
    [] c = "T" -> "t"
    [] c = "H" -> "h"
    [] c = "I" -> "i"
    [] OTHER -> c

\* the characters the regular expression class \w matches
IsWordChar(c) ==
  Lower(c) \in {"a", "c", "e", "h", "i", "n", "o", "t", "v", "_", "0", "1"}

\* str.startswith(prefix)
startswith(text, prefix) ==
  /\ Len(prefix) <= Len(text)
  /\ SubSeq(text, 1, Len(prefix)) = prefix

\* whether position p of text (1..Len+1) is a \b word boundary: exactly one of
\* the characters before and at p is a word character
word_boundary(text, p) ==
  LET before == p > 1 /\ IsWordChar(text[p - 1])
      at == p <= Len(text) /\ IsWordChar(text[p])
  IN  before # at

\* faulty variant of pattern_search: the pattern has no \b, whatever whole_word is
pattern_search_substring(definition, text) ==
  LET keyword == definition[1]
      case_sensitive == definition[2]
      n == Len(keyword)
      same(a, b) == IF case_sensitive THEN a = b ELSE Lower(a) = Lower(b)
  IN  \E p \in 1..(Len(text) + 1) :
        /\ p + n - 1 <= Len(text)
        /\ \A j \in 1..n : same(text[p + j - 1], keyword[j])

\* re.compile((r'\b{}\b' if whole_word else '{}').format(re.escape(keyword)),
\*            re.NOFLAG if case_sensitive else re.IGNORECASE).search(text)
\* The compiled pattern is a pure function of the 3-tuple, so the
\* _keyword_cache memo is not part of the model's state.
pattern_search(definition, text) ==
  LET keyword == definition[1]
      case_sensitive == definition[2]
      whole_word == definition[3]
      n == Len(keyword)
      same(a, b) == IF case_sensitive THEN a = b ELSE Lower(a) = Lower(b)
  IN  \E p \in 1..(Len(text) + 1) :
        /\ p + n - 1 <= Len(text)
        /\ \A j \in 1..n : same(text[p + j - 1], keyword[j])
        /\ whole_word => (word_boundary(text, p) /\ word_boundary(text, p + n))

(***************************************************************************)
(* Envelopes and the DataMessage projection.  An optional key of the wire  *)
(* object is a field the record has or lacks.                              *)
(***************************************************************************)
\* DataMessage(envelope): the attributes the router reads; an attribute the
\* frame lacks is None, which the record shows by lacking the field
DataMessage(envelope) ==
  LET dm == envelope.dataMessage
      base == [unix_timestamp |-> dm.timestamp, sender |-> envelope.sourceNumber,
               sender_name |-> envelope.sourceName, message |-> dm.message,
               mentions |-> IF "mentions" \in DOMAIN dm THEN dm.mentions ELSE <<>>]
  IN  IF "groupInfo" \in DOMAIN dm
        THEN [group_info |-> dm.groupInfo] @@ base
        ELSE base

\* the Context built by __handle_data_message
context_of(envelope) ==
  LET message == DataMessage(envelope)
  IN  IF "group_info" \in DOMAIN message
        THEN <<"group", message.group_info.groupId>>
        ELSE <<"individual", message.sender, envelope.sourceName>>

\* faulty variant of matches_context: an empty filter matches nothing
matches_context_no_match_all(g, context) == context[2] \in Range(contexts[g])

\* Personality.matches_context(context): context[1] is the second component
matches_context(g, context) ==
  Len(contexts[g]) = 0 \/ context[2] \in Range(contexts[g])

(***************************************************************************)
(* Personality.personality_handle_message: the hooks of one group whose    *)
(* condition holds for the message, in the order the method reaches them.  *)
(* The method awaits each of them in turn and returns at the first True.   *)
(***************************************************************************)
\* the items of a hook table, each tagged with its group and tier
tagged(g, tier, table) ==
  [i \in 1..Len(table) |->
     [group |-> g, tier |-> tier, key |-> table[i][1], hook |-> table[i][2]]]

\* message.mentions and any(mention['number'] == account for mention in ...)
mentions_account(message, account) ==
  \E i \in 1..Len(message.mentions) : message.mentions[i].number = account

\* faulty variant of group_candidates: the keyword tier is tried before the
\* mention tier
group_candidates_keyword_first(g, message) ==
  LET has_text == message.message # None
      prefixes == SelectSeq(tagged(g, "prefix", prefix_hooks[g]),
                    LAMBDA c : has_text /\ startswith(message.message, c.key))
      mentioned == SelectSeq(tagged(g, "account", mention_hooks[g]),
                    LAMBDA c : mentions_account(message, c.key))
      keywords == SelectSeq(tagged(g, "keyword", keyword_hooks[g]),
                    LAMBDA c : has_text /\ pattern_search(c.key, message.message))
      globals == [i \in 1..Len(message_hooks[g]) |->
                    [group |-> g, tier |-> "message", key |-> i,
                     hook |-> message_hooks[g][i]]]
  IN  prefixes \o keywords \o mentioned \o globals

group_candidates(g, message) ==
  LET has_text == message.message # None
      prefixes == SelectSeq(tagged(g, "prefix", prefix_hooks[g]),
                    LAMBDA c : has_text /\ startswith(message.message, c.key))
      mentioned == SelectSeq(tagged(g, "account", mention_hooks[g]),
                    LAMBDA c : mentions_account(message, c.key))
      keywords == SelectSeq(tagged(g, "keyword", keyword_hooks[g]),
                    LAMBDA c : has_text /\ pattern_search(c.key, message.message))
      globals == [i \in 1..Len(message_hooks[g]) |->
                    [group |-> g, tier |-> "message", key |-> i,
                     hook |-> message_hooks[g][i]]]
  IN  prefixes \o mentioned \o keywords \o globals

(***************************************************************************)
(* __handle_data_message walks the personalities in registration order,    *)
(* skipping those whose matches_context is false, and then the root group; *)
(* a True from any hook ends the walk, so the hooks it can reach form one  *)
(* sequence.                                                               *)
(***************************************************************************)
Root == "root"

RECURSIVE personality_candidates(_, _, _)
personality_candidates(ps, context, message) ==
  IF ps = <<>> THEN <<>>
  ELSE (IF matches_context(Head(ps), context)
          THEN group_candidates(Head(ps), message)
          ELSE <<>>)
       \o personality_candidates(Tail(ps), context, message)

\* faulty variant of candidates: the root group is asked before the
\* personalities
candidates_root_first(envelope) ==
  LET message == DataMessage(envelope)
  IN  group_candidates(Root, message)
        \o personality_candidates(personalities, context_of(envelope), message)

candidates(envelope) ==
  LET message == DataMessage(envelope)
  IN  personality_candidates(personalities, context_of(envelope), message)
        \o group_candidates(Root, message)

(***************************************************************************)
(* SignalBotImpl.handle_notification and __receive: both run without an    *)
(* await, inside the listen loop's handler call.                           *)
(***************************************************************************)
\* datetime.fromtimestamp(ms / 1000.0): milliseconds to the datetime's
\* microseconds
fromtimestamp(ms) == ms * 1000

\* faulty variant of too_old: a timestamp equal to the start time passes
too_old_strict(envelope) == fromtimestamp(envelope.timestamp) < start_time

\* the guard of __receive: timestamp <= self.__start_time
too_old(envelope) == fromtimestamp(envelope.timestamp) <= start_time

\* asyncio.create_task(self.__handle_data_message(envelope))
\* `line` is the number of the stream line that carried the envelope
new_dispatch_task(envelope) ==
  [envelope |-> envelope, phase |-> "created", pos |-> 0,
   line |-> lines_emitted - Len(inbound) + 1, sent |-> {}]

\* __receive(message): the branch it leaves by and the task list afterwards
receive(message) ==
  IF "envelope" \notin DOMAIN message.params
    THEN [branch |-> "no_envelope", tasks |-> dispatch_tasks]
  ELSE LET envelope == message.params.envelope
       IN  IF too_old(envelope)
             THEN [branch |-> "too_old", tasks |-> dispatch_tasks]
           ELSE IF "typingMessage" \in DOMAIN envelope
             THEN [branch |-> "typingMessage", tasks |-> dispatch_tasks]
           ELSE IF "dataMessage" \in DOMAIN envelope
             THEN [branch |-> "dataMessage",
                   tasks |-> Append(dispatch_tasks, new_dispatch_task(envelope))]
           ELSE [branch |-> "other", tasks |-> dispatch_tasks]

\* faulty variant of handle_notification: the method is not looked at
handle_notification_any_method(notification) == receive(notification)

\* handle_notification(notification): any method but 'receive' is logged;
\* notification['method'] of a frame without the key raises KeyError
handle_notification(notification) ==
  IF "method" \notin DOMAIN notification
    THEN [branch |-> "KeyError", tasks |-> dispatch_tasks]
  ELSE IF notification.method = "receive"
    THEN receive(notification)
    ELSE [branch |-> "unexpected_method", tasks |-> dispatch_tasks]

(***************************************************************************)
(* The __handle_data_message task.  It suspends only inside a hook it      *)
(* awaits: after a hook returns False the task goes on, in the same atomic *)
(* section, up to the call of the next hook.  An exception of a hook is    *)
(* caught nowhere on the way: it ends the task.                            *)
(***************************************************************************)
\* await hook(signal, context, message): the call, its arguments, and the
\* outcome once the hook has finished
hook_call(t, c) ==
  [line |-> t.line, timestamp |-> t.envelope.timestamp,
   context |-> context_of(t.envelope), group |-> c.group, tier |-> c.tier,
   key |-> c.key, hook |-> c.hook, outcome |-> "pending"]

\* the calls so far, with the pending call of the task of `line` finished
finished(line, outcome) ==
  [n \in 1..Len(hook_calls) |->
     IF hook_calls[n].line = line /\ hook_calls[n].outcome = "pending"
       THEN [hook_calls[n] EXCEPT !.outcome = outcome]
       ELSE hook_calls[n]]

\* removes the i-th task of the list
without_task(i) ==
  [j \in 1..(Len(dispatch_tasks) - 1) |->
     IF j < i THEN dispatch_tasks[j] ELSE dispatch_tasks[j + 1]]

\* the record of calls with one more call, put behind the calls of its line
called(calls, c) ==
  LET before == SelectSeq(calls, LAMBDA d : d.line <= c.line)
      after == SelectSeq(calls, LAMBDA d : d.line > c.line)
  IN  before \o <<c>> \o after

\* the task calls its next candidate hook, or returns when none is left;
\* `calls` is the record of calls up to here
call_next(i, calls) ==
  LET t == dispatch_tasks[i]
      cs == candidates(t.envelope)
  IN  IF t.pos + 1 > Len(cs)
        THEN /\ dispatch_tasks' = without_task(i)
             /\ hook_calls' = calls
        ELSE /\ dispatch_tasks' =
                  [dispatch_tasks EXCEPT ![i] = [@ EXCEPT !.phase = "in_hook", !.pos = t.pos + 1]]
             /\ hook_calls' = called(calls, hook_call(t, cs[t.pos + 1]))

\* first step of the task: if envelope['dataMessage']['message'] is None: return
handle_data_message(i) ==
  /\ i \in 1..Len(dispatch_tasks)
  /\ dispatch_tasks[i].phase = "created"
  /\ \A j \in 1..(i - 1) : dispatch_tasks[j].phase # "created"
  /\ IF dispatch_tasks[i].envelope.dataMessage.message = None
       THEN /\ dispatch_tasks' = without_task(i)
            /\ UNCHANGED hook_calls
       ELSE call_next(i, hook_calls)
  /\ UNCHANGED <<rpc_vars, transport_vars, stop_vars, cron_vars, start_time, hook_tables, last_branch>>

\* the awaited hook finishes: True ends the dispatch, False goes on to the
\* next hook, an exception ends the task
hook_returns(i, outcome) ==
  /\ i \in 1..Len(dispatch_tasks)
  /\ dispatch_tasks[i].phase = "in_hook"
  /\ IF outcome = "False"
       THEN call_next(i, finished(dispatch_tasks[i].line, outcome))
       ELSE /\ dispatch_tasks' = without_task(i)
            /\ hook_calls' = finished(dispatch_tasks[i].line, outcome)
  /\ UNCHANGED <<rpc_vars, transport_vars, stop_vars, cron_vars, start_time, hook_tables, last_branch>>

\* the hook the task i is suspended in calls a send method: __json_rpc runs
\* inside the task, and the hook awaits the future it returns
hook_json_rpc(i, key) ==
  /\ i \in 1..Len(dispatch_tasks)
  /\ dispatch_tasks[i].phase = "in_hook"
  /\ ~created(key)
  /\ \A k \in Keys : k < key => created(k)
  /\ futures' = [futures EXCEPT ![key] = PendingFuture]
  /\ t_handles' = [t_handles EXCEPT ![key] = "armed"]
  /\ WAITERS' = Append(WAITERS, key)
  /\ write_tasks' = [write_tasks EXCEPT ![key] = "created"]
  /\ cancelable' = cancelable \o << <<"t_handle", key>>, <<"task", key>> >>
  /\ dispatch_tasks' = [dispatch_tasks EXCEPT ![i].sent = @ \cup {key}]
  /\ UNCHANGED <<outbound, transport_vars, stop_vars, cron_vars, start_time, hook_tables,
                 hook_calls, last_branch>>

(***************************************************************************)
(* The cron scheduler of one Personality.  A CronItem is the tuple         *)
(* (schedule, callback); the schedule is the period of the cron            *)
(* expression, whose occurrences are the multiples of the period.          *)
(***************************************************************************)
Groups == {Root} \cup Range(personalities)

\* faulty variant of seeker_next: one occurrence is skipped
seeker_next_skips(period, position) == ((position \div period) + 2) * period

\* Seeker.next(): the first occurrence strictly after the seeker's position
seeker_next(period, position) == ((position \div period) + 1) * period

\* loop.call_later(delay, self._cron_repeat, signal, schedule, item), appended
\* to self._crons
timer(item, when) == [item |-> item, when |-> when, state |-> "armed", listed |-> TRUE]

\* Personality.start_crons: one call_later per registered CronItem, ref = now
start_crons(g) ==
  crons[g] \o [i \in 1..Len(cron_hooks[g]) |->
                 timer(cron_hooks[g][i], seeker_next(cron_hooks[g][i][1], now))]

\* faulty variant of stop_crons: the last handle of the list is left alone
stop_crons_but_last(handles) ==
  [i \in 1..Len(handles) |->
     IF i < Len(handles) THEN [handles[i] EXCEPT !.state = handle_cancel(@)] ELSE handles[i]]

\* Personality.stop_crons: cancel() on every handle of the list
stop_crons(handles) ==
  [i \in 1..Len(handles) |->
     IF handles[i].listed THEN [handles[i] EXCEPT !.state = handle_cancel(@)] ELSE handles[i]]

\* the loop runs an armed timer that is due: _cron_repeat starts the callback
cron_repeat(g, i) ==
  /\ g \in Groups
  /\ i \in 1..Len(crons[g])
  /\ crons[g][i].state = "armed"
  /\ crons[g][i].when <= now
  /\ crons' = [crons EXCEPT ![g] =
                IF @[i].listed
                  THEN [@ EXCEPT ![i].state = "fired"]
                  ELSE [k \in 1..(Len(@) - 1) |-> IF k < i THEN @[k] ELSE @[k + 1]]]
  /\ cron_tasks' = Append(cron_tasks,
        [group |-> g, item |-> crons[g][i].item, sched |-> crons[g][i].when])
  /\ UNCHANGED <<now, cron_hooks, callback_exceptions, rpc_vars, transport_vars, stop_vars, route_vars>>

\* the stale-handle loop of _reschedule: del every handle with when() < loop.time().
\* del takes the handle out of the list and does not cancel it: one that is
\* still armed stays with the loop and runs when the loop gets to it.
prune(handles) ==
  LET kept == SelectSeq(handles, LAMBDA h : ~(h.when < now) \/ h.state = "armed")
  IN  [i \in 1..Len(kept) |->
         IF kept[i].when < now THEN [kept[i] EXCEPT !.listed = FALSE] ELSE kept[i]]

\* SignalBotImpl.handle_callback_exception returns True; a Personality
\* subclass supplies its own
may_return(g, ret) == g = Root => ret

\* faulty variant of reschedule: the verdict of handle_callback_exception is
\* not looked at
reschedule_deaf(j, raised, ret) ==
  /\ j \in 1..Len(cron_tasks)
  /\ raised \/ ret
  /\ may_return(cron_tasks[j].group, ret)
  /\ LET t == cron_tasks[j]
     IN  /\ cron_tasks' = [k \in 1..(Len(cron_tasks) - 1) |->
                             IF k < j THEN cron_tasks[k] ELSE cron_tasks[k + 1]]
         /\ callback_exceptions' =
              IF raised
                THEN Append(callback_exceptions,
                            [cb |-> <<"cron", t.item[1], t.item[2]>>, returned |-> ret])
                ELSE callback_exceptions
         /\ crons' = [crons EXCEPT ![t.group] =
                      Append(prune(@), timer(t.item, seeker_next(t.item[1], t.sched)))]
  /\ UNCHANGED <<now, cron_hooks, rpc_vars, transport_vars, stop_vars, route_vars>>

\* faulty variant of reschedule: a callback that raised takes the other
\* timers of its group down with it
reschedule_fatal(j, raised, ret) ==
  /\ j \in 1..Len(cron_tasks)
  /\ raised \/ ret
  /\ may_return(cron_tasks[j].group, ret)
  /\ LET t == cron_tasks[j]
     IN  /\ cron_tasks' = [k \in 1..(Len(cron_tasks) - 1) |->
                             IF k < j THEN cron_tasks[k] ELSE cron_tasks[k + 1]]
         /\ callback_exceptions' =
              IF raised
                THEN Append(callback_exceptions,
                            [cb |-> <<"cron", t.item[1], t.item[2]>>, returned |-> ret])
                ELSE callback_exceptions
         /\ IF raised /\ ~ret
              THEN UNCHANGED crons
              ELSE crons' = [crons EXCEPT ![t.group] =
                      Append(IF raised THEN <<>> ELSE prune(@),
                             timer(t.item, seeker_next(t.item[1], t.sched)))]
  /\ UNCHANGED <<now, cron_hooks, rpc_vars, transport_vars, stop_vars, route_vars>>

\* the callback's task is done: _cron_repeat._reschedule runs
reschedule(j, raised, ret) ==
  /\ j \in 1..Len(cron_tasks)
  /\ raised \/ ret
  /\ may_return(cron_tasks[j].group, ret)
  /\ LET t == cron_tasks[j]
     IN  /\ cron_tasks' = [k \in 1..(Len(cron_tasks) - 1) |->
                             IF k < j THEN cron_tasks[k] ELSE cron_tasks[k + 1]]
         /\ callback_exceptions' =
              IF raised
                THEN Append(callback_exceptions,
                            [cb |-> <<"cron", t.item[1], t.item[2]>>, returned |-> ret])
                ELSE callback_exceptions
         /\ IF raised /\ ~ret
              THEN UNCHANGED crons
              ELSE crons' = [crons EXCEPT ![t.group] =
                      Append(prune(@), timer(t.item, seeker_next(t.item[1], t.sched)))]
  /\ UNCHANGED <<now, cron_hooks, rpc_vars, transport_vars, stop_vars, route_vars>>

\* time passes
tick ==
  /\ now < MaxTime
  /\ now' = now + 1
  /\ UNCHANGED <<cron_hooks, crons, cron_tasks, callback_exceptions, rpc_vars, transport_vars, stop_vars, route_vars>>

\* a call of Personality.stop_crons of the group g
stop_crons_call(g) ==
  /\ g \in Groups
  /\ crons' = [crons EXCEPT ![g] = stop_crons(@)]
  /\ UNCHANGED <<now, cron_hooks, cron_tasks, callback_exceptions, rpc_vars, transport_vars, stop_vars, route_vars>>

\* Personality.remove_cron(item): self._cron_hooks.remove(item), which raises
\* ValueError for an item that is not registered
remove_cron(g, item) ==
  /\ g \in Groups
  /\ item \in Range(cron_hooks[g])
  /\ cron_hooks' = [cron_hooks EXCEPT ![g] = ListRemove(@, item)]
  /\ UNCHANGED <<now, crons, cron_tasks, callback_exceptions, rpc_vars, transport_vars, stop_vars, route_vars>>

\* the most handles a group's list may hold when start_crons is called again
MaxHandles == 2

\* Personality.start_crons of the group g called again, after a stop_crons
\* that has left none of its listed timers armed
start_crons_call(g) ==
  /\ g \in Groups
  /\ run_state # "idle"
  /\ \A i \in 1..Len(crons[g]) : crons[g][i].listed => crons[g][i].state # "armed"
  /\ Len(crons[g]) < MaxHandles
  /\ crons' = [crons EXCEPT ![g] = start_crons(g)]
  /\ UNCHANGED <<now, cron_hooks, cron_tasks, callback_exceptions, rpc_vars, transport_vars, stop_vars, route_vars>>

(***************************************************************************)
(* transport.listen(handler): one pass of the loop for a line that was     *)
(* read.  Nothing between readline() returning and the handler returning   *)
(* awaits, so the pass is atomic.  Only CancelledError is caught: any      *)
(* other exception leaves listen() and, through the await, run().          *)
(***************************************************************************)
listen_raises(exc) ==
  /\ listen_state' = "raised"
  /\ listen_error' = exc
  /\ run_state' = "raised"

\* faulty variant of line_read: the loop waits for the dispatches it began
line_read_after_dispatch == listen_state = "reading" /\ inbound # <<>> /\ dispatch_tasks = <<>>

\* await readline(stdout, timeout=0.1) returns a line
line_read == listen_state = "reading" /\ inbound # <<>>

listen_line ==
  /\ line_read
  /\ inbound' = Tail(inbound)
  /\ UNCHANGED <<lines_emitted, write_tasks, outbound>>
  /\ LET line == Head(inbound)
     IN  IF ~json_loads_ok(line)
           THEN /\ listen_raises("JSONDecodeError")
                /\ UNCHANGED <<futures, t_handles, WAITERS, cancelable, dispatch_tasks,
                               last_branch>>
         ELSE IF IsResponse(json_loads(line))
           THEN LET r == handle_response(json_loads(line))
                IN  /\ futures' = r.futures
                    /\ t_handles' = r.t_handles
                    /\ cancelable' = r.cancelable
                    /\ WAITERS' = r.WAITERS
                    /\ IF r.raised = "none"
                         THEN UNCHANGED <<listen_state, listen_error, run_state>>
                         ELSE listen_raises(r.raised)
                    /\ last_branch' = "handle_response"
                    /\ UNCHANGED dispatch_tasks
         ELSE /\ dispatch_tasks' = handle_notification(json_loads(line)).tasks
              /\ last_branch' = handle_notification(json_loads(line)).branch
              /\ IF handle_notification(json_loads(line)).branch = "KeyError"
                   THEN listen_raises("KeyError")
                   ELSE UNCHANGED <<listen_state, listen_error, run_state>>
              /\ UNCHANGED <<futures, t_handles, WAITERS, cancelable>>
  /\ UNCHANGED <<stop_vars, cron_vars, start_time, hook_tables, hook_calls>>

(***************************************************************************)
(* SignalBotImpl.run: starts the crons of the root group and of every      *)
(* personality, then awaits transport.listen.                              *)
(***************************************************************************)
\* faulty variant of run: the crons of the personalities are not started
run_root_only ==
  /\ run_state = "idle"
  /\ crons' = [g \in DOMAIN crons |-> IF g = Root THEN start_crons(g) ELSE crons[g]]
  /\ run_state' = "listening"
  /\ listen_state' = "reading"
  /\ UNCHANGED <<inbound, lines_emitted, listen_error, now, cron_hooks, cron_tasks,
                 callback_exceptions, rpc_vars, stop_vars, route_vars>>

run ==
  /\ run_state = "idle"
  /\ crons' = [g \in DOMAIN crons |-> IF g \in Groups THEN start_crons(g) ELSE crons[g]]
  /\ run_state' = "listening"
  /\ listen_state' = "reading"
  /\ UNCHANGED <<inbound, lines_emitted, listen_error, now, cron_hooks, cron_tasks,
                 callback_exceptions, rpc_vars, stop_vars, route_vars>>

\* faulty variant of cancel_run: listen() has no except clause for CancelledError
cancel_run_escapes ==
  /\ listen_state = "reading"
  /\ listen_raises("CancelledError")
  /\ UNCHANGED <<inbound, lines_emitted, rpc_vars, stop_vars, cron_vars, route_vars>>

\* the task running run() is cancelled from outside: the CancelledError is
\* raised in readline(), listen() swallows it and returns, run() returns
cancel_run ==
  /\ listen_state = "reading"
  /\ listen_state' = "returned"
  /\ run_state' = "returned"
  /\ UNCHANGED <<inbound, lines_emitted, listen_error, rpc_vars, stop_vars, cron_vars, route_vars>>

(***************************************************************************)
(* SignalBotImpl.stop.  Up to its only real suspension point, the          *)
(* asyncio.wait at the end, stop() is one atomic section made of three     *)
(* steps in program order: stop_crons on every group, transport.terminate, *)
(* cancel() on every entry of __cancelable.  Each step maps the part of    *)
(* the state stop() touches to its value after the step.                   *)
(***************************************************************************)
\* self.__cancelable of this session: the entries of the requests it sent
own_cancelable == SelectSeq(cancelable, LAMBDA e : e[2] \notin peer.sent)

\* self.__cancelable of the second session
peer_cancelable == SelectSeq(cancelable, LAMBDA e : e[2] \in peer.sent)

\* Task.cancel(): a task that has finished stays as it is
task_cancel(st) == IF st \in {"created", "draining"} THEN "cancelling" ELSE st

\* an entry of __cancelable that can still act: an armed timeout, a write
\* task that has not finished and was not told to cancel
live(entry, st) ==
  IF entry[1] = "t_handle"
    THEN st.t_handles[entry[2]] = "armed"
    ELSE st.write_tasks[entry[2]] \in {"created", "draining"}

cron_handles(st, state) ==
  UNION {{<<g, i>> : i \in {j \in 1..Len(st.crons[g]) : st.crons[g][j].state = state}} :
           g \in Groups}

\* self.stop_crons(); for personality in self.__personalities: personality.stop_crons()
stop_all_crons(st) ==
  [st EXCEPT !.crons = [g \in DOMAIN @ |-> IF g \in Groups THEN stop_crons(@[g]) ELSE @[g]]]

\* await self.__transport.terminate(): JsonRpcTransport.terminate has an
\* empty body and no transport overrides it, so the call changes nothing of
\* the transport; the model records that it was made and what was live then
terminate(st) ==
  [st EXCEPT !.terminate_calls = @ + 1,
             !.terminate_view = [armed_crons |-> cron_handles(st, "armed"),
                                 cancelled_crons |-> cron_handles(st, "cancelled"),
                                 live_work |-> {e \in Range(own_cancelable) : live(e, st)}]]

\* for cancelable in self.__cancelable: cancelable.cancel()
cancel_all(st) ==
  [st EXCEPT !.t_handles = [k \in DOMAIN @ |->
                IF <<"t_handle", k>> \in Range(own_cancelable) THEN handle_cancel(@[k]) ELSE @[k]],
             !.write_tasks = [k \in DOMAIN @ |->
                IF <<"task", k>> \in Range(own_cancelable) THEN task_cancel(@[k]) ELSE @[k]]]

\* faulty variant of stop_body: terminate comes before the crons are stopped
stop_body_terminate_first(st) == cancel_all(stop_all_crons(terminate(st)))

\* the three steps in the order of the source
stop_body(st) == cancel_all(terminate(stop_all_crons(st)))

\* [x for x in self.__cancelable if isawaitable(x)]: the tasks, not the handles
awaitables == {e[2] : e \in {x \in Range(own_cancelable) : x[1] = "task"}}

\* the part of the state stop() works on
stoppable ==
  [crons |-> crons, t_handles |-> t_handles, write_tasks |-> write_tasks,
   terminate_calls |-> terminate_calls, terminate_view |-> terminate_view]

\* stop() from its guard to the asyncio.wait, or to its end when
\* __cancelable is empty
stop_begin ==
  /\ ~stopping
  /\ terminate_calls < MaxStops
  /\ LET st == stop_body(stoppable)
     IN  /\ crons' = st.crons
         /\ t_handles' = st.t_handles
         /\ write_tasks' = st.write_tasks
         /\ terminate_calls' = st.terminate_calls
         /\ terminate_view' = st.terminate_view
  /\ IF own_cancelable = <<>>
       THEN /\ stopping' = FALSE
            /\ stop_state' = "idle"
            /\ stop_wait' = {}
            /\ stops_completed' = stops_completed + 1
       ELSE /\ stopping' = TRUE
            /\ stop_state' = "waiting"
            /\ stop_wait' = awaitables
            /\ UNCHANGED stops_completed
  /\ UNCHANGED <<futures, WAITERS, cancelable, outbound, transport_vars, peer,
                 now, cron_hooks, cron_tasks, callback_exceptions, route_vars>>

\* asyncio.wait returns once every awaited task is done; then
\* self.__stopping.clear()
stop_finish ==
  /\ stop_state = "waiting"
  /\ \A k \in stop_wait : write_tasks[k] \in {"done", "cancelled"}
  /\ stopping' = FALSE
  /\ stop_state' = "idle"
  /\ stop_wait' = {}
  /\ stops_completed' = stops_completed + 1
  /\ UNCHANGED <<terminate_calls, terminate_view, peer, rpc_vars, transport_vars, cron_vars, route_vars>>

(***************************************************************************)
(* A second SignalBotImpl in the same process.  __WAITERS and __stopping   *)
(* are attributes of the class, so both sessions work on the same dict and *)
(* the same Event; __cancelable and the transport are set in __init__ and  *)
(* belong to one session.  The peer sends requests and calls stop(); its   *)
(* own transport is not modelled.                                          *)
(***************************************************************************)
\* the requests of the peer
PeerKeys == Keys \ SessionKeys

\* __json_rpc called on the peer
peer_json_rpc(key) ==
  /\ ~created(key)
  /\ \A k \in PeerKeys : k < key => created(k)
  /\ futures' = [futures EXCEPT ![key] = PendingFuture]
  /\ t_handles' = [t_handles EXCEPT ![key] = "armed"]
  /\ WAITERS' = Append(WAITERS, key)
  /\ write_tasks' = [write_tasks EXCEPT ![key] = "created"]
  /\ cancelable' = cancelable \o << <<"t_handle", key>>, <<"task", key>> >>
  /\ peer' = [peer EXCEPT !.sent = @ \cup {key}]
  /\ UNCHANGED <<outbound, transport_vars, stopping, stop_state, stop_wait, terminate_calls,
                 terminate_view, stops_completed, cron_vars, route_vars>>

\* the write task of a request of the peer writes to the peer's transport
peer_write_start(key) ==
  /\ key \in peer.sent
  /\ write_tasks[key] = "created"
  /\ \A k \in Keys : k < key => write_tasks[k] # "created"
  /\ write_tasks' = [write_tasks EXCEPT ![key] = "draining"]
  /\ UNCHANGED <<futures, t_handles, WAITERS, cancelable, outbound, transport_vars, stop_vars,
                 cron_vars, route_vars>>

\* stop() called on the peer: it returns at the guard when the shared
\* __stopping is set; otherwise it runs to its asyncio.wait, or to its end
\* when the peer's __cancelable is empty.  The peer has no crons and no
\* personalities, and terminate() has an empty body.
peer_stop ==
  /\ peer.stop_state = "idle"
  /\ peer.stop_calls + peer.stop_refused < MaxStops
  /\ IF stopping
       THEN /\ peer' = [peer EXCEPT !.stop_refused = @ + 1]
            /\ UNCHANGED <<stopping, t_handles, write_tasks>>
       ELSE /\ t_handles' = [k \in DOMAIN t_handles |->
                               IF <<"t_handle", k>> \in Range(peer_cancelable)
                                 THEN handle_cancel(t_handles[k]) ELSE t_handles[k]]
            /\ write_tasks' = [k \in DOMAIN write_tasks |->
                                 IF <<"task", k>> \in Range(peer_cancelable)
                                   THEN task_cancel(write_tasks[k]) ELSE write_tasks[k]]
            /\ IF peer_cancelable = <<>>
                 THEN /\ stopping' = FALSE
                      /\ peer' = [peer EXCEPT !.stop_calls = @ + 1, !.stops_completed = @ + 1]
                 ELSE /\ stopping' = TRUE
                      /\ peer' = [peer EXCEPT
                                    !.stop_calls = @ + 1,
                                    !.stop_state = "waiting",
                                    !.stop_wait = {e[2] : e \in {x \in Range(peer_cancelable) :
                                                                   x[1] = "task"}}]
  /\ UNCHANGED <<futures, WAITERS, cancelable, outbound, transport_vars, stop_state, stop_wait,
                 terminate_calls, terminate_view, stops_completed, cron_vars, route_vars>>

\* the peer's asyncio.wait returns; then self.__stopping.clear()
peer_stop_finish ==
  /\ peer.stop_state = "waiting"
  /\ \A k \in peer.stop_wait : write_tasks[k] \in {"done", "cancelled"}
  /\ stopping' = FALSE
  /\ peer' = [peer EXCEPT !.stop_state = "idle", !.stop_wait = {}, !.stops_completed = @ + 1]
  /\ UNCHANGED <<stop_state, stop_wait, terminate_calls, terminate_view, stops_completed,
                 rpc_vars, transport_vars, cron_vars, route_vars>>

(***************************************************************************)
(* The relay (signal-cli): it answers requests it has read, may repeat an  *)
(* answer or answer an id this session does not know, and writes           *)
(* notifications and, at times, bytes that are no JSON.                    *)
(***************************************************************************)
emit(line, limit) ==
  /\ lines_emitted < limit
  /\ lines_emitted' = lines_emitted + 1
  /\ inbound' = Append(inbound, line)
  /\ UNCHANGED <<listen_state, listen_error, run_state, rpc_vars, stop_vars, cron_vars, route_vars>>

answerable == {outbound[i].id : i \in 1..Len(outbound)} \cup {StaleId}

relay_respond ==
  \E id \in answerable :
    \/ \E res \in Results : emit(JsonLine(ResultFrame(id, res)), MaxLines)
    \/ \E err \in ErrorBodies : emit(JsonLine(ErrorFrame(id, err)), MaxLines)

relay_noise == \E line \in {GarbageLine, EmptyLine} : emit(line, MaxLines)

\* the relay of this session writes a response that carries the id of a
\* request the peer has sent
relay_foreign ==
  \E key \in peer.sent, res \in Results :
    emit(JsonLine(ResultFrame(request_id(key), res)), MaxLines)

(***************************************************************************)
(* Notifications the relay sends.                                          *)
(***************************************************************************)
Envelope(ts, payload) ==
  CASE DOMAIN payload = {"dataMessage"} ->
         [sourceNumber |-> "+15550001", sourceName |-> "Ann", sourceUuid |-> "u1",
          timestamp |-> ts, dataMessage |-> payload.dataMessage]
    [] DOMAIN payload = {"typingMessage"} ->
         [sourceNumber |-> "+15550001", sourceName |-> "Ann", sourceUuid |-> "u1",
          timestamp |-> ts, typingMessage |-> payload.typingMessage]
    [] DOMAIN payload = {"receiptMessage"} ->
         [sourceNumber |-> "+15550001", sourceName |-> "Ann", sourceUuid |-> "u1",
          timestamp |-> ts, receiptMessage |-> payload.receiptMessage]
    [] OTHER ->
         [sourceNumber |-> "+15550001", sourceName |-> "Ann", sourceUuid |-> "u1",
          timestamp |-> ts, typingMessage |-> payload.typingMessage,
          dataMessage |-> payload.dataMessage]

DataPayload(ts, text) ==
  [dataMessage |-> [timestamp |-> ts, message |-> text, expiresInSeconds |-> 0]]

GroupDataPayload(ts, text, gid) ==
  [dataMessage |-> [timestamp |-> ts, message |-> text, expiresInSeconds |-> 0,
                    groupInfo |-> [groupId |-> gid, type |-> "DELIVER"]]]

TypingPayload == [typingMessage |-> [action |-> "STARTED"]]

ReceiptPayload == [receiptMessage |-> [isDelivery |-> TRUE]]

Receive(envelope) ==
  [jsonrpc |-> "2.0", method |-> "receive", params |-> [envelope |-> envelope]]

\* the millisecond the session started in
StartMillisecond == start_time \div 1000

\* envelope timestamps, in milliseconds: the millisecond of the session start
\* and the one after it
Timestamps == {StartMillisecond, StartMillisecond + 1}

\* session start times, in microseconds: one on a millisecond, one between
StartTimes == {2000, 2500}

Payloads(ts) ==
  {DataPayload(ts, <<"h", "i">>), GroupDataPayload(ts, <<"h", "i">>, "g1"),
   DataPayload(ts, None), TypingPayload, ReceiptPayload,
   [typingMessage |-> TypingPayload.typingMessage,
    dataMessage |-> DataPayload(ts, <<"h", "i">>).dataMessage]}

Notifications ==
  {Receive(Envelope(ts, pl)) : <<ts, pl>> \in
       UNION {{<<t, q>> : q \in Payloads(t)} : t \in Timestamps}}
  \cup {[jsonrpc |-> "2.0", method |-> "receive", params |-> [account |-> "+15550000"]],
        [jsonrpc |-> "2.0", method |-> "listGroups", params |-> [account |-> "+15550000"]],
        [jsonrpc |-> "2.0", method |-> "sync",
         params |-> [envelope |-> Envelope(StartMillisecond + 1, DataPayload(StartMillisecond + 1, <<"h", "i">>))]]}

relay_notify == \E n \in Notifications : emit(JsonLine(n), MaxNotifications)

\* a data message with a mention of the bot
Mentioning(payload) ==
  LET dm == payload.dataMessage
  IN  IF "groupInfo" \in DOMAIN dm
        THEN [dataMessage |->
                [timestamp |-> dm.timestamp, message |-> dm.message,
                 expiresInSeconds |-> dm.expiresInSeconds, groupInfo |-> dm.groupInfo,
                 mentions |-> << [number |-> BotAccount] >>]]
        ELSE [dataMessage |->
                [timestamp |-> dm.timestamp, message |-> dm.message,
                 expiresInSeconds |-> dm.expiresInSeconds,
                 mentions |-> << [number |-> BotAccount] >>]]

\* data messages newer than the session: a text that has the prefix and the
\* keyword the hooks are registered for, a text that has neither, and no
\* text; from an individual, from the group g1 and from the group g2
Messages ==
  LET ts == StartMillisecond + 1
      hi == <<"h", "i">>
      x == <<"x">>
  IN  {Receive(Envelope(ts, pl)) : pl \in
         {DataPayload(ts, hi), Mentioning(DataPayload(ts, hi)),
          GroupDataPayload(ts, hi, "g1"), Mentioning(GroupDataPayload(ts, hi, "g1")),
          GroupDataPayload(ts, hi, "g2"), DataPayload(ts, x),
          Mentioning(GroupDataPayload(ts, x, "g1")), GroupDataPayload(ts, None, "g1"),
          Mentioning(DataPayload(ts, None))}}

relay_message == \E n \in Messages : emit(JsonLine(n), MaxMessages)

\* texts for the keyword "cat": as a word of a sentence, inside a longer
\* word, as a word in another letter case, as the whole text, and without it
Sentence == <<"I", " ", "h", "a", "v", "e", " ", "a", " ", "c", "a", "t", ".">>

Concatenate == <<"c", "o", "n", "c", "a", "t", "e", "n", "a", "t", "e">>

Capitalised == <<"I", " ", "h", "a", "v", "e", " ", "a", " ", "C", "a", "t", ".">>

Shout == <<"C", "A", "T">>

Other == <<"h", "i">>

Texts == {Sentence, Concatenate, Capitalised, Shout, Other}

relay_text ==
  \E text \in Texts :
    emit(JsonLine(Receive(Envelope(StartMillisecond + 1,
                                   DataPayload(StartMillisecond + 1, text)))), MaxMessages)

\* frames of every shape: answers to the requests that were written and to a
\* request this session does not know, an answer that also has a method, a
\* data message, a notification of another method, and a frame with neither
\* a result, an error nor a method
Frames ==
  {ResultFrame(id, EmptyResult) : id \in answerable}
  \cup {ErrorFrame(id, err) : id \in answerable, err \in ErrorBodies}
  \cup {[jsonrpc |-> "2.0", id |-> StaleId, result |-> EmptyResult, method |-> "receive"],
        Receive(Envelope(StartMillisecond + 1, DataPayload(StartMillisecond + 1, <<"h", "i">>))),
        [jsonrpc |-> "2.0", method |-> "listGroups", params |-> [account |-> BotAccount]],
        [jsonrpc |-> "2.0", id |-> StaleId]}

relay_frame == \E f \in Frames : emit(JsonLine(f), MaxFrames)

(***************************************************************************)
(* Initial states: a session as SignalBotImpl.__init__ leaves it, with     *)
(* the hooks, personalities and cron items its user registered before      *)
(* run().                                                                  *)
(***************************************************************************)
GroupIds == {Root, "p1", "p2"}

(***************************************************************************)
(* Registration of hooks.  The prefix, keyword and mention tables are      *)
(* dicts, kept as the sequence of their items in insertion order; the      *)
(* catch-all hooks are a list.                                             *)
(***************************************************************************)
MaxHooks == 2

Callbacks == {"cb1", "cb2"}

PrefixKeys == {<<"h">>, <<"h", "i">>}

\* (keyword, case_sensitive, whole_word): the same keyword under other flags
\* is another key
KeywordKeys == {<<(<<"h", "i">>), FALSE, TRUE>>, <<(<<"h", "i">>), TRUE, TRUE>>}

MentionKeys == {BotAccount}

dict_keys(d) == {d[i][1] : i \in 1..Len(d)}

\* faulty variant of dict_set: a key that is set again moves to the end
dict_set_moves(d, key, value) ==
  Append(SelectSeq(d, LAMBDA item : item[1] # key), <<key, value>>)

\* d[key] = value
dict_set(d, key, value) ==
  IF key \in dict_keys(d)
    THEN [i \in 1..Len(d) |-> IF d[i][1] = key THEN <<key, value>> ELSE d[i]]
    ELSE Append(d, <<key, value>>)

\* self._message_hooks.append(cb)
list_append(l, cb) == Append(l, cb)

on_prefix(g, prefix, cb) ==
  /\ prefix_hooks' = [prefix_hooks EXCEPT ![g] = dict_set(@, prefix, cb)]
  /\ UNCHANGED <<personalities, contexts, message_hooks, keyword_hooks, mention_hooks,
                 start_time, dispatch_tasks, hook_calls, last_branch,
                 rpc_vars, transport_vars, stop_vars, cron_vars>>

on_keyword(g, definition, cb) ==
  /\ keyword_hooks' = [keyword_hooks EXCEPT ![g] = dict_set(@, definition, cb)]
  /\ UNCHANGED <<personalities, contexts, message_hooks, prefix_hooks, mention_hooks,
                 start_time, dispatch_tasks, hook_calls, last_branch,
                 rpc_vars, transport_vars, stop_vars, cron_vars>>

on_mention(g, mention, cb) ==
  /\ mention_hooks' = [mention_hooks EXCEPT ![g] = dict_set(@, mention, cb)]
  /\ UNCHANGED <<personalities, contexts, message_hooks, prefix_hooks, keyword_hooks,
                 start_time, dispatch_tasks, hook_calls, last_branch,
                 rpc_vars, transport_vars, stop_vars, cron_vars>>

on_message(g, cb) ==
  /\ Len(message_hooks[g]) < MaxHooks
  /\ message_hooks' = [message_hooks EXCEPT ![g] = list_append(@, cb)]
  /\ UNCHANGED <<personalities, contexts, prefix_hooks, keyword_hooks, mention_hooks,
                 start_time, dispatch_tasks, hook_calls, last_branch,
                 rpc_vars, transport_vars, stop_vars, cron_vars>>

InitRpc ==
  /\ futures = [k \in Keys |-> NoFuture]
  /\ t_handles = [k \in Keys |-> "none"]
  /\ write_tasks = [k \in Keys |-> "none"]
  /\ WAITERS = <<>>
  /\ cancelable = <<>>
  /\ outbound = <<>>

InitTransport ==
  /\ inbound = <<>>
  /\ lines_emitted = 0
  /\ listen_state = "idle"
  /\ listen_error = "none"
  /\ run_state = "idle"

InitStop ==
  /\ stopping = FALSE
  /\ stop_state = "idle"
  /\ stop_wait = {}
  /\ terminate_calls = 0
  /\ terminate_view = [armed_crons |-> {}, cancelled_crons |-> {}, live_work |-> {}]
  /\ stops_completed = 0
  /\ peer = [sent |-> {}, stop_state |-> "idle", stop_wait |-> {},
             stop_calls |-> 0, stop_refused |-> 0, stops_completed |-> 0]

InitCron ==
  /\ now = 0
  /\ cron_hooks = [g \in GroupIds |->
        CASE g = Root -> << <<2, "root_cron">> >>
          [] g = "p1" -> << <<3, "p1_cron">> >>
          [] OTHER -> <<>>]
  /\ crons = [g \in GroupIds |-> <<>>]
  /\ cron_tasks = <<>>
  /\ callback_exceptions = <<>>

\* the root group has registered two CronItems
InitCronPair ==
  /\ now = 0
  /\ cron_hooks = [g \in GroupIds |->
        CASE g = Root -> << <<2, "root_cron">>, <<3, "root_report">> >>
          [] g = "p1" -> << <<3, "p1_cron">> >>
          [] OTHER -> <<>>]
  /\ crons = [g \in GroupIds |-> <<>>]
  /\ cron_tasks = <<>>
  /\ callback_exceptions = <<>>

\* no message has been read yet
InitRouting ==
  /\ dispatch_tasks = <<>>
  /\ hook_calls = <<>>
  /\ last_branch = "none"

\* one personality for the group g1, and catch-all hooks only
InitHooks ==
  /\ personalities = <<"p1">>
  /\ contexts = [g \in GroupIds |-> IF g = "p1" THEN <<"g1">> ELSE <<>>]
  /\ message_hooks = [g \in GroupIds |->
        CASE g = Root -> <<"root_any">> [] g = "p1" -> <<"p1_any">> [] OTHER -> <<>>]
  /\ prefix_hooks = [g \in GroupIds |-> <<>>]
  /\ keyword_hooks = [g \in GroupIds |-> <<>>]
  /\ mention_hooks = [g \in GroupIds |-> <<>>]
  /\ InitRouting

\* two personalities, p1 for the group g1 and the account +15550002 and p2
\* for every context, and
\* hooks of every tier, two of them in the catch-all tier of the root group
InitDispatchHooks ==
  /\ personalities = <<"p1", "p2">>
  /\ contexts = [g \in GroupIds |-> IF g = "p1" THEN <<"g1", "+15550002">> ELSE <<>>]
  /\ message_hooks = [g \in GroupIds |->
        CASE g = Root -> <<"root_any", "root_any2">>
          [] g = "p1" -> <<"p1_any">>
          [] OTHER -> <<>>]
  /\ prefix_hooks = [g \in GroupIds |->
        CASE g = Root -> << <<(<<"h">>), "root_prefix">> >>
          [] g = "p1" -> << <<(<<"h">>), "p1_prefix">> >>
          [] OTHER -> <<>>]
  /\ keyword_hooks = [g \in GroupIds |->
        CASE g = Root -> << << <<(<<"h", "i">>), FALSE, TRUE>>, "root_keyword">> >>
          [] g = "p2" -> << << <<(<<"H", "I">>), FALSE, TRUE>>, "p2_keyword">> >>
          [] OTHER -> <<>>]
  /\ mention_hooks = [g \in GroupIds |->
        IF g = Root THEN << <<BotAccount, "root_mention">> >> ELSE <<>>]
  /\ InitRouting

\* on_keyword("cat", cb, case_sensitive, whole_word) on the root group, with
\* every choice of the two flags, and a catch-all hook behind it
KeywordDefinitions == {<<(<<"c", "a", "t">>), cs, ww>> : cs \in BOOLEAN, ww \in BOOLEAN}

InitKeywordHooks ==
  /\ personalities = <<>>
  /\ contexts = [g \in GroupIds |-> <<>>]
  /\ message_hooks = [g \in GroupIds |-> IF g = Root THEN <<"root_any">> ELSE <<>>]
  /\ prefix_hooks = [g \in GroupIds |-> <<>>]
  /\ mention_hooks = [g \in GroupIds |-> <<>>]
  /\ \E definition \in KeywordDefinitions :
       keyword_hooks = [g \in GroupIds |->
         IF g = Root THEN << <<definition, "root_keyword">> >> ELSE <<>>]
  /\ InitRouting

InitKeyword ==
  /\ InitRpc /\ InitTransport /\ InitStop /\ InitCron /\ InitKeywordHooks
  /\ start_time = 2500

\* nothing is registered yet
InitNoHooks ==
  /\ personalities = <<>>
  /\ contexts = [g \in GroupIds |-> <<>>]
  /\ message_hooks = [g \in GroupIds |-> <<>>]
  /\ prefix_hooks = [g \in GroupIds |-> <<>>]
  /\ keyword_hooks = [g \in GroupIds |-> <<>>]
  /\ mention_hooks = [g \in GroupIds |-> <<>>]
  /\ InitRouting

InitRegister ==
  /\ InitRpc /\ InitTransport /\ InitStop /\ InitCron /\ InitNoHooks
  /\ start_time = 2500

\* a session that started between two milliseconds
InitSession ==
  /\ InitRpc /\ InitTransport /\ InitStop /\ InitCron /\ InitHooks
  /\ start_time = 2500

InitPair ==
  /\ InitRpc /\ InitTransport /\ InitStop /\ InitCronPair /\ InitHooks
  /\ start_time = 2500

InitRouter ==
  /\ InitRpc /\ InitTransport /\ InitStop /\ InitCron /\ InitHooks
  /\ start_time \in StartTimes

(***************************************************************************)
(* Specifications.                                                         *)
(***************************************************************************)
\* the RPC engine, the listen loop and the session lifecycle
NextSession ==
  \/ \E key \in SessionKeys : json_rpc(key)
  \/ \E key \in SessionKeys : write_start(key)
  \/ \E key \in SessionKeys : write_done(key)
  \/ \E key \in SessionKeys : write_cancelled(key)
  \/ \E key \in SessionKeys : cancel_timer(key)
  \/ relay_respond
  \/ relay_noise
  \/ listen_line
  \/ run
  \/ cancel_run
  \/ stop_begin
  \/ stop_finish

SpecSession == InitSession /\ [][NextSession]_vars

\* the session with callers that give up on their requests
NextCaller ==
  \/ \E key \in SessionKeys : json_rpc(key)
  \/ \E key \in SessionKeys : write_start(key)
  \/ \E key \in SessionKeys : write_done(key)
  \/ \E key \in SessionKeys : write_cancelled(key)
  \/ \E key \in SessionKeys : cancel_timer(key)
  \/ \E key \in SessionKeys : caller_cancel(key)
  \/ relay_respond
  \/ listen_line
  \/ run
  \/ stop_begin
  \/ stop_finish

SpecCaller == InitSession /\ [][NextCaller]_vars

\* what the event loop guarantees: a ready task is stepped, a due or armed
\* timeout fires, a line that is there is read.  What the user and the relay
\* do (send, cancel, stop, answer) is guaranteed by nothing.
Fairness ==
  /\ \A key \in SessionKeys : WF_vars(write_start(key))
  /\ \A key \in SessionKeys : WF_vars(write_done(key))
  /\ \A key \in SessionKeys : WF_vars(write_cancelled(key))
  /\ \A key \in SessionKeys : WF_vars(cancel_timer(key))
  /\ WF_vars(listen_line)
  /\ WF_vars(stop_finish)

FairSession == SpecSession /\ Fairness

\* the event router
NextRouter ==
  \/ relay_notify
  \/ listen_line
  \/ run
  \/ \E i \in 1..MaxNotifications : handle_data_message(i)
  \/ \E i \in 1..MaxNotifications, outcome \in {"True", "False", "raise"} : hook_returns(i, outcome)

SpecRouter == InitRouter /\ [][NextRouter]_vars

InitDispatch ==
  /\ InitRpc /\ InitTransport /\ InitStop /\ InitCron /\ InitDispatchHooks
  /\ start_time = 2500

\* the registrations of the root group
NextRegister ==
  \/ \E prefix \in PrefixKeys, cb \in Callbacks : on_prefix(Root, prefix, cb)
  \/ \E definition \in KeywordKeys, cb \in Callbacks : on_keyword(Root, definition, cb)
  \/ \E mention \in MentionKeys, cb \in Callbacks : on_mention(Root, mention, cb)
  \/ \E cb \in Callbacks : on_message(Root, cb)

SpecRegister == InitRegister /\ [][NextRegister]_vars

\* the dispatch of data messages to the hooks
NextDispatch ==
  \/ relay_message
  \/ listen_line
  \/ run
  \/ \E i \in 1..MaxMessages : handle_data_message(i)
  \/ \E i \in 1..MaxMessages, outcome \in {"True", "False", "raise"} : hook_returns(i, outcome)

SpecDispatch == InitDispatch /\ [][NextDispatch]_vars

\* the listen loop over frames of every shape
NextListen ==
  \/ \E key \in SessionKeys : json_rpc(key)
  \/ \E key \in SessionKeys : write_start(key)
  \/ \E key \in SessionKeys : write_done(key)
  \/ relay_frame
  \/ listen_line
  \/ run

SpecListen == InitSession /\ [][NextListen]_vars

\* the keyword hooks over texts
NextKeyword ==
  \/ relay_text
  \/ listen_line
  \/ run
  \/ \E i \in 1..MaxMessages : handle_data_message(i)
  \/ \E i \in 1..MaxMessages, outcome \in {"True", "False", "raise"} : hook_returns(i, outcome)

SpecKeyword == InitKeyword /\ [][NextKeyword]_vars

\* the request pipeline: several requests outstanding at once
NextPipeline ==
  \/ \E key \in Keys : json_rpc(key)
  \/ \E key \in Keys : write_start(key)
  \/ \E key \in Keys : write_done(key)
  \/ \E key \in Keys : cancel_timer(key)
  \/ relay_respond
  \/ listen_line
  \/ run

SpecPipeline == InitSession /\ [][NextPipeline]_vars

\* two sessions in one process
NextProcess ==
  \/ \E key \in SessionKeys : json_rpc(key)
  \/ \E key \in PeerKeys : peer_json_rpc(key)
  \/ \E key \in SessionKeys : write_start(key)
  \/ \E key \in PeerKeys : peer_write_start(key)
  \/ \E key \in Keys : write_done(key)
  \/ \E key \in Keys : write_cancelled(key)
  \/ \E key \in Keys : cancel_timer(key)
  \/ relay_respond
  \/ relay_foreign
  \/ listen_line
  \/ run
  \/ stop_begin
  \/ stop_finish
  \/ peer_stop
  \/ peer_stop_finish

SpecProcess == InitSession /\ [][NextProcess]_vars

\* hooks that send requests while the listen loop reads on
NextHooks ==
  \/ relay_frame
  \/ listen_line
  \/ run
  \/ \E i \in 1..MaxFrames : handle_data_message(i)
  \/ \E i \in 1..MaxFrames, outcome \in {"True", "False", "raise"} : hook_returns(i, outcome)
  \/ \E i \in 1..MaxFrames, key \in SessionKeys : hook_json_rpc(i, key)
  \/ \E key \in SessionKeys : write_start(key)
  \/ \E key \in SessionKeys : write_done(key)

SpecHooks == InitSession /\ [][NextHooks]_vars

\* stop() while data messages are dispatched
NextStopDispatch ==
  \/ relay_message
  \/ listen_line
  \/ run
  \/ \E i \in 1..MaxMessages : handle_data_message(i)
  \/ \E i \in 1..MaxMessages, outcome \in {"True", "False", "raise"} : hook_returns(i, outcome)
  \/ stop_begin

SpecStopDispatch == InitSession /\ [][NextStopDispatch]_vars

\* the cron scheduler: the timers of the groups, their callbacks and the clock
NextCron ==
  \/ run
  \/ tick
  \/ \E g \in GroupIds : \E i \in 1..Len(crons[g]) : cron_repeat(g, i)
  \/ \E j \in 1..Len(cron_tasks), raised \in BOOLEAN, ret \in BOOLEAN : reschedule(j, raised, ret)
  \/ \E g \in GroupIds : stop_crons_call(g)

SpecCron == InitSession /\ [][NextCron]_vars

\* the cron scheduler with items that are removed
NextCronRemove ==
  \/ run
  \/ tick
  \/ \E g \in GroupIds : \E i \in 1..Len(crons[g]) : cron_repeat(g, i)
  \/ \E j \in 1..Len(cron_tasks), raised \in BOOLEAN, ret \in BOOLEAN : reschedule(j, raised, ret)
  \/ \E g \in GroupIds : \E item \in Range(cron_hooks[g]) : remove_cron(g, item)

SpecCronRemove == InitPair /\ [][NextCronRemove]_vars

\* the cron scheduler with groups that are stopped and started again
NextCronRestart ==
  \/ run
  \/ tick
  \/ \E g \in GroupIds : \E i \in 1..Len(crons[g]) : cron_repeat(g, i)
  \/ \E j \in 1..Len(cron_tasks), raised \in BOOLEAN, ret \in BOOLEAN : reschedule(j, raised, ret)
  \/ \E g \in GroupIds : stop_crons_call(g)
  \/ \E g \in GroupIds : start_crons_call(g)

SpecCronRestart == InitSession /\ [][NextCronRestart]_vars

\* the cron scheduler and stop() of a session that is running: start_crons
\* is not called again after a stop()
NextCronStop ==
  \/ run
  \/ tick
  \/ \E g \in GroupIds : \E i \in 1..Len(crons[g]) : cron_repeat(g, i)
  \/ \E j \in 1..Len(cron_tasks), raised \in BOOLEAN, ret \in BOOLEAN : reschedule(j, raised, ret)
  \/ run_state # "idle" /\ stop_begin

SpecCronStop == InitSession /\ [][NextCronStop]_vars

\* the cron scheduler of a group with several CronItems, left running
NextCronPair ==
  \/ run
  \/ tick
  \/ \E g \in GroupIds : \E i \in 1..Len(crons[g]) : cron_repeat(g, i)
  \/ \E j \in 1..Len(cron_tasks), raised \in BOOLEAN, ret \in BOOLEAN : reschedule(j, raised, ret)

SpecCronPair == InitPair /\ [][NextCronPair]_vars

\* the same group, with calls of stop_crons
SpecCronPairStop == InitPair /\ [][NextCron]_vars

(***************************************************************************)
(* Properties of the RPC engine.                                           *)
(***************************************************************************)
\* the line listen() reads next is a response frame for the waiting request k
ResponseRead(k) ==
  /\ listen_state = "reading"
  /\ inbound # <<>>
  /\ inbound' = Tail(inbound)
  /\ json_loads_ok(Head(inbound))
  /\ IsResponse(json_loads(Head(inbound)))
  /\ json_loads(Head(inbound)).id = request_id(k)
  /\ k \in Range(WAITERS)

\* C1: a request's future is resolved at most once under every interleaving
\* of matching responses, its timeout and stop(): once the future is done no
\* step changes it, and no step attempts a second resolution (which asyncio
\* would answer with InvalidStateError).
C1_ResolvedAtMostOnce ==
  /\ [][\A k \in Keys : done(k) => futures'[k] = futures[k]]_vars
  /\ [](listen_error # "InvalidStateError")

\* a request that timed out, whose answer the relay wrote all the same and
\* listen() read without an error, in a session stop() has run on
C1_Witness ==
  \E k \in Keys :
    /\ futures[k].state = "FINISHED"
    /\ futures[k].kind = "TimeoutError"
    /\ lines_emitted > 0
    /\ inbound = <<>>
    /\ listen_error = "none"
    /\ stops_completed > 0

\* C3: a timeout that fires (which it does only while no matching response
\* has been handled) resolves the future to TimeoutError, which is no
\* SignalRpcException, and removes the waiter.
C3_TimeoutFailure ==
  \A k \in Keys :
    t_handles[k] = "fired" =>
      /\ futures[k].state = "FINISHED"
      /\ futures[k].kind = "TimeoutError"
      /\ k \notin Range(WAITERS)

\* the timeout of a request fired after the request was written
C3_Witness ==
  \E k \in Keys :
    /\ t_handles[k] = "fired"
    /\ write_tasks[k] = "done"
    /\ futures[k].kind = "TimeoutError"

\* C4: when listen() hands handle_response a frame without `error` whose id
\* is that of a waiting request, the future resolves to that frame, whose
\* result payload is what the caller's Response carries; the timeout handle
\* is cancelled and never fires afterwards, and the waiter leaves the table.
C4_ResultResolves ==
  /\ [][\A k \in Keys :
          (ResponseRead(k) /\ "error" \notin DOMAIN json_loads(Head(inbound))) =>
             /\ futures'[k].state = "FINISHED"
             /\ futures'[k].kind = "result"
             /\ Response(futures'[k].value).result = json_loads(Head(inbound)).result
             /\ t_handles'[k] = "cancelled"
             /\ k \notin Range(WAITERS')]_vars
  /\ [][\A k \in Keys : t_handles[k] = "cancelled" => t_handles'[k] = "cancelled"]_vars

\* a request resolved to the result the relay sent
C4_Witness ==
  \E k \in Keys :
    /\ futures[k].state = "FINISHED"
    /\ futures[k].kind = "result"
    /\ Response(futures[k].value).result \in Results
    /\ t_handles[k] = "cancelled"

\* C5: when the frame for a waiting request carries `error`, the future
\* resolves to a SignalRpcException with the error's message and the raw
\* frame as body, never to a result and never to TimeoutError; the timeout
\* handle is cancelled and the waiter leaves the table as on success.
C5_ErrorResolves ==
  [][\A k \in Keys :
       (ResponseRead(k) /\ "error" \in DOMAIN json_loads(Head(inbound))) =>
          /\ futures'[k].state = "FINISHED"
          /\ futures'[k].kind = "SignalRpcException"
          /\ futures'[k].message = json_loads(Head(inbound)).error.message
          /\ futures'[k].body = json_loads(Head(inbound))
          /\ t_handles'[k] = "cancelled"
          /\ k \notin Range(WAITERS')]_vars

\* a request that failed with the error the relay sent
C5_Witness ==
  \E k \in Keys :
    /\ futures[k].state = "FINISHED"
    /\ futures[k].kind = "SignalRpcException"
    /\ futures[k].body.error \in ErrorBodies
    /\ t_handles[k] = "cancelled"

\* C2: every request that was sent eventually reaches a terminal outcome
\* (a result, an RPC error, a timeout failure or a cancellation), also when
\* stop() is called while it is outstanding.
C2_EventuallyTerminal == \A k \in Keys : created(k) ~> done(k)

(***************************************************************************)
(* Properties of the listen loop and of the session lifecycle.             *)
(***************************************************************************)
\* C6: a line that is no JSON is skipped: listen() goes on reading, no
\* exception leaves it, and no handler has acted on the line.
C6_MalformedLineSkipped ==
  [][(/\ listen_state = "reading"
      /\ inbound # <<>>
      /\ inbound' = Tail(inbound)
      /\ ~json_loads_ok(Head(inbound)))
       => /\ listen_state' = "reading"
          /\ listen_error' = "none"
          /\ UNCHANGED <<futures, WAITERS, dispatch_tasks>>]_vars

\* C7: once stop() has run on a session whose run() is listening, the listen
\* loop exits and run() returns.
C7_StopEndsRun ==
  (run_state = "listening" /\ stops_completed > 0) ~> (run_state # "listening")

\* C8 as the text has it: a second stop() repeats nothing, so
\* transport.terminate() is called at most once however often stop() is.
C8_NoSecondRound == terminate_calls <= 1

\* C8: stop() keeps no one-shot flag; a stop() called after another has
\* completed passes the guard and runs every step again, terminate included.
\* It is idempotent in its effect only: applied to what a stop() left, the
\* steps of stop() change no cron handle, no timeout handle and no task.
C8_SecondStopChangesNothing ==
  /\ stop_state = "idle" => ~stopping
  /\ LET once == stop_body(stoppable)
         twice == stop_body(once)
     IN  /\ twice.crons = once.crons
         /\ twice.t_handles = once.t_handles
         /\ twice.write_tasks = once.write_tasks
         /\ twice.terminate_calls = terminate_calls + 2

\* two stop() calls have completed, the second after timers and tasks the
\* first one cancelled
C8_Witness ==
  /\ stops_completed = 2
  /\ terminate_calls = 2
  /\ \E k \in Keys : t_handles[k] = "cancelled" /\ write_tasks[k] = "cancelled"
  /\ \E g \in Groups : \E i \in 1..Len(crons[g]) : crons[g][i].state = "cancelled"

C10_OldEnvelopesNotDispatched ==
  /\ \A i \in 1..Len(hook_calls) :
       fromtimestamp(hook_calls[i].timestamp) > start_time
  /\ \A i \in 1..Len(dispatch_tasks) :
       fromtimestamp(dispatch_tasks[i].envelope.timestamp) > start_time

\* an envelope stamped with the very millisecond of the start was dropped by
\* the guard, in a session that has invoked hooks for a newer envelope
C10_Witness ==
  /\ start_time = 2000
  /\ last_branch = "too_old"
  /\ hook_calls # <<>>

(***************************************************************************)
(* Properties of the dispatch of a data message.                           *)
(***************************************************************************)
\* the place of a tier in the order the text gives
TierRank(tier) ==
  CASE tier = "prefix" -> 1
    [] tier = "account" -> 2
    [] tier = "keyword" -> 3
    [] tier = "message" -> 4

\* the calls made for the message of one stream line, in call order
CallsOf(line) == SelectSeq(hook_calls, LAMBDA c : c.line = line)

\* C11: within one group the hooks of a message are called in the tier order
\* prefix, mention, keyword, catch-all, and a hook is called only after every
\* earlier hook called for the message returned False: once a hook returns
\* True, no further hook of any tier or group is called for that message.
C11_TierOrderFirstTrueEnds ==
  \A i, j \in 1..Len(hook_calls) :
    (i < j /\ hook_calls[i].line = hook_calls[j].line) =>
      /\ hook_calls[i].outcome \notin {"True", "pending"}
      /\ hook_calls[i].group = hook_calls[j].group =>
           TierRank(hook_calls[i].tier) <= TierRank(hook_calls[j].tier)

\* the calls made for that message to the hooks of the group g
CallsOfGroup(line, g) == SelectSeq(CallsOf(line), LAMBDA c : c.group = g)

\* a message went through the prefix and the mention hook of the root group,
\* its keyword hook returned True, and the dispatch ended without a call of
\* the catch-all hooks
C11_Witness ==
  /\ dispatch_tasks = <<>>
  /\ \E line \in 1..lines_emitted :
       LET calls == CallsOfGroup(line, Root)
       IN  /\ Len(calls) = 3
           /\ calls[1].hook = "root_prefix" /\ calls[1].outcome = "False"
           /\ calls[2].hook = "root_mention" /\ calls[2].outcome = "False"
           /\ calls[3].hook = "root_keyword" /\ calls[3].outcome = "True"

\* the place of a group in the order of __handle_data_message: the
\* personalities as add_personality registered them, the root group last
GroupRank(g) ==
  IF g = Root THEN Len(personalities) + 1
  ELSE CHOOSE n \in 1..Len(personalities) : personalities[n] = g

\* the dispatch of the message of `line` has ended and every hook it called
\* returned a value
Returned(line) ==
  /\ \A n \in 1..Len(dispatch_tasks) : dispatch_tasks[n].line # line
  /\ CallsOf(line) # <<>>
  /\ \A n \in 1..Len(CallsOf(line)) : CallsOf(line)[n].outcome \in {"True", "False"}

\* C12: the hooks of a message are called group by group in registration
\* order, the root group last; no group is asked after a hook of an earlier
\* group returned True; and when the dispatch has run to its end, the root
\* group was asked if and only if no hook of a registered group returned True.
C12_GroupsInOrderRootLast ==
  /\ \A i, j \in 1..Len(hook_calls) :
       (i < j /\ hook_calls[i].line = hook_calls[j].line) =>
         /\ GroupRank(hook_calls[i].group) <= GroupRank(hook_calls[j].group)
         /\ hook_calls[i].outcome # "True"
  /\ \A line \in 1..lines_emitted :
       Returned(line) =>
         (CallsOfGroup(line, Root) # <<>>
            <=> \A n \in 1..Len(CallsOf(line)) :
                  CallsOf(line)[n].group # Root => CallsOf(line)[n].outcome = "False")

\* a message of the group g1 that p1, then p2, then the root group were asked
\* about
C12_Witness ==
  \E line \in 1..lines_emitted :
    /\ Returned(line)
    /\ CallsOfGroup(line, "p1") # <<>>
    /\ CallsOfGroup(line, "p2") # <<>>
    /\ CallsOfGroup(line, Root) # <<>>

\* the Contexts __handle_data_message can build: a group, or an individual
\* with the display name
Contexts ==
  {<<"group", "g1">>, <<"group", "g2">>,
   <<"individual", "+15550001", "Ann">>, <<"individual", "+15550002", "Bob">>}

\* the subject of a Context is in the filter of the group g
InFilter(g, context) == \E n \in 1..Len(contexts[g]) : contexts[g][n] = context[2]

C14_HookExceptionHandled ==
  /\ \A n \in 1..Len(hook_calls) :
       hook_calls[n].outcome = "raise" =>
         \E e \in Range(callback_exceptions) :
           e.cb[1] = hook_calls[n].tier /\ e.cb[Len(e.cb)] = hook_calls[n].hook
  /\ \A line \in 1..lines_emitted :
       (/\ \A n \in 1..Len(dispatch_tasks) : dispatch_tasks[n].line # line
        /\ CallsOf(line) # <<>>
        /\ \A n \in 1..Len(CallsOf(line)) : CallsOf(line)[n].outcome # "True")
         => \E n \in 1..Len(CallsOf(line)) :
              CallsOf(line)[n].group = Root /\ CallsOf(line)[n].tier = "message"
  /\ listen_state # "raised"

(***************************************************************************)
(* Properties of the cron scheduler.                                       *)
(***************************************************************************)
\* the callback task j has left cron_tasks in this step: _reschedule ran for it
Rescheduled(j) ==
  /\ j \in 1..Len(cron_tasks)
  /\ cron_tasks' = [k \in 1..(Len(cron_tasks) - 1) |->
                      IF k < j THEN cron_tasks[k] ELSE cron_tasks[k + 1]]

\* in this step handle_callback_exception was called and returned False
Refused ==
  /\ Len(callback_exceptions') = Len(callback_exceptions) + 1
  /\ ~callback_exceptions'[Len(callback_exceptions')].returned

\* the armed timers of the item in the handles
ArmedFor(handles, item) ==
  {i \in 1..Len(handles) : handles[i].item = item /\ handles[i].state = "armed"}

\* C15: when a cron callback has finished, its item is armed again, once,
\* whether the callback returned or raised, unless it raised and
\* handle_callback_exception returned False: then nothing is armed, and no
\* timer of that item is armed afterwards.
C15_RearmedUnlessRefused ==
  /\ [][\A j \in 1..Len(cron_tasks) :
          Rescheduled(j) =>
            LET t == cron_tasks[j]
            IN  IF Refused
                  THEN crons' = crons
                  ELSE /\ ArmedFor(crons'[t.group], t.item) = {Len(crons'[t.group])}
                       /\ ArmedFor(crons[t.group], t.item) = {}]_vars
  /\ [](\A n \in 1..Len(callback_exceptions) :
          ~callback_exceptions[n].returned =>
            \A g \in Groups :
              ArmedFor(crons[g], <<callback_exceptions[n].cb[2], callback_exceptions[n].cb[3]>>) = {})

\* the callback of p1 raised and the handler of p1 returned False, the
\* callback of the root group raised and its item is armed again
C15_Witness ==
  /\ \E n \in 1..Len(callback_exceptions) :
       ~callback_exceptions[n].returned /\ callback_exceptions[n].cb[3] = "p1_cron"
  /\ \E n \in 1..Len(callback_exceptions) :
       callback_exceptions[n].returned /\ callback_exceptions[n].cb[3] = "root_cron"
  /\ ArmedFor(crons[Root], <<2, "root_cron">>) # {}
  /\ ArmedFor(crons["p1"], <<3, "p1_cron">>) = {}

\* C16 as the specification states it: the item that is armed again is due
\* one period after the moment its callback completed.
C16_NextFireFromCompletion ==
  [][\A j \in 1..Len(cron_tasks) :
       (Rescheduled(j) /\ ~Refused) =>
         LET t == cron_tasks[j]
             handles == crons'[t.group]
         IN  handles[Len(handles)].when = now + t.item[1]]_vars

\* C16: the item that is armed again is due at the first occurrence of its
\* schedule after the occurrence that fired it, whenever its callback
\* completed: it may be due less than one period after the completion, or at
\* once.
C16_NextFireFromSchedule ==
  [][\A j \in 1..Len(cron_tasks) :
       (Rescheduled(j) /\ ~Refused) =>
         LET t == cron_tasks[j]
             handles == crons'[t.group]
             when == handles[Len(handles)].when
         IN  /\ when % t.item[1] = 0
             /\ when > t.sched
             /\ when <= t.sched + t.item[1]]_vars

\* the callback of the root item, due every 2, fired at 2 and completed at 3:
\* the stale handle was dropped and the item is due again at 4
C16_Witness ==
  /\ now = 3
  /\ crons[Root] = <<timer(<<2, "root_cron">>, 4)>>

C18_StartCronsArmsEach ==
  /\ [](run_state = "idle" =>
          /\ listen_state # "reading"
          /\ \A g \in Groups : crons[g] = <<>>)
  /\ [][(listen_state # "reading" /\ listen_state' = "reading") =>
          \A g \in Groups :
            /\ Len(crons'[g]) = Len(cron_hooks[g])
            /\ \A i \in 1..Len(cron_hooks[g]) :
                 /\ crons'[g][i].item = cron_hooks[g][i]
                 /\ crons'[g][i].state = "armed"
                 /\ crons'[g][i].when > now]_vars

\* run() was called at time 2: the root item, due every 2, is armed for 4 and
\* the item of p1, due every 3, for 3
C18_Witness ==
  /\ listen_state = "reading"
  /\ now = 2
  /\ crons[Root] = <<timer(<<2, "root_cron">>, 4)>>
  /\ crons["p1"] = <<timer(<<3, "p1_cron">>, 3)>>

(***************************************************************************)
(* Properties of the listen loop and of the notification handler.          *)
(***************************************************************************)
\* the listen loop takes a line that decodes in this step
FrameRead ==
  /\ listen_state = "reading"
  /\ inbound # <<>>
  /\ inbound' = Tail(inbound)
  /\ json_loads_ok(Head(inbound))

\* C19: the frame the loop decodes is the oldest line not read yet; when it
\* has a result or an error key it goes to handle_response and to nothing of
\* the notification handler, and the request waiting for its id is resolved;
\* every other frame goes to handle_notification and to nothing of the
\* response handler, and a data message among them is the one dispatched.
C19_FramesRouted ==
  [][FrameRead =>
       LET frame == json_loads(Head(inbound))
       IN  IF "result" \in DOMAIN frame \/ "error" \in DOMAIN frame
             THEN /\ last_branch' = "handle_response"
                  /\ dispatch_tasks' = dispatch_tasks
                  /\ \A k \in Range(WAITERS) :
                       (request_id(k) = frame.id /\ ~done(k)) => futures'[k] # futures[k]
             ELSE /\ last_branch' # "handle_response"
                  /\ UNCHANGED <<futures, t_handles, WAITERS, cancelable>>
                  /\ last_branch' = "dataMessage" =>
                       /\ Len(dispatch_tasks') = Len(dispatch_tasks) + 1
                       /\ dispatch_tasks'[Len(dispatch_tasks')].envelope = frame.params.envelope]_vars

\* two frames were read: the data message went to handle_notification and
\* was dispatched, the error frame after it went to handle_response and
\* failed the request that waited for it
C19_Witness ==
  /\ lines_emitted = 2
  /\ inbound = <<>>
  /\ Len(dispatch_tasks) = 1
  /\ last_branch = "handle_response"
  /\ \E k \in Keys : futures[k].state = "FINISHED" /\ futures[k].kind = "SignalRpcException"

\* C20: a dispatch task is created only for a frame of the method receive
\* whose envelope has a dataMessage; a frame of another method, and a receive
\* frame without an envelope or with a typingMessage or another payload,
\* creates none and leaves the listen loop running; and a hook is called
\* only by a dispatch task, for the data message of its envelope.
C20_OnlyDataMessagesDispatch ==
  /\ [][FrameRead =>
          LET frame == json_loads(Head(inbound))
              data == /\ "method" \in DOMAIN frame
                      /\ frame.method = "receive"
                      /\ "envelope" \in DOMAIN frame.params
                      /\ "dataMessage" \in DOMAIN frame.params.envelope
                      /\ "typingMessage" \notin DOMAIN frame.params.envelope
          IN  /\ hook_calls' = hook_calls
              /\ dispatch_tasks' # dispatch_tasks => data
              /\ ("method" \in DOMAIN frame /\ ~data) =>
                   /\ dispatch_tasks' = dispatch_tasks
                   /\ listen_state' = "reading"]_vars
  /\ [][Len(hook_calls') > Len(hook_calls) =>
          \E i \in 1..Len(dispatch_tasks) :
            /\ "dataMessage" \in DOMAIN dispatch_tasks[i].envelope
            /\ \E n \in 1..Len(hook_calls') :
                 /\ hook_calls'[n].line = dispatch_tasks[i].line
                 /\ hook_calls'[n].outcome = "pending"
                 /\ hook_calls'[n].timestamp = dispatch_tasks[i].envelope.timestamp]_vars

\* two frames were read, the last of them of another method than receive:
\* no task, no hook call, and the loop reads on
C20_Witness ==
  /\ lines_emitted = 2
  /\ inbound = <<>>
  /\ last_branch = "unexpected_method"
  /\ dispatch_tasks = <<>>
  /\ hook_calls = <<>>
  /\ listen_state = "reading"

\* C21: reading a data message creates its dispatch task and calls no hook:
\* the task has not started when handle_notification returns, and the tasks
\* that are there are left as they are; and whenever a line is there the
\* loop can read it, also while hooks of earlier messages are suspended.
C21_DispatchDoesNotBlockLoop ==
  /\ [][FrameRead =>
          /\ hook_calls' = hook_calls
          /\ Len(dispatch_tasks') >= Len(dispatch_tasks)
          /\ \A i \in 1..Len(dispatch_tasks) : dispatch_tasks'[i] = dispatch_tasks[i]
          /\ \A i \in (Len(dispatch_tasks) + 1)..Len(dispatch_tasks') :
               dispatch_tasks'[i].phase = "created"]_vars
  /\ []((listen_state = "reading" /\ inbound # <<>>) => ENABLED listen_line)

\* a hook that is still suspended sent a request, and the loop has read the
\* response that resolved it
C21_Witness ==
  \E i \in 1..Len(dispatch_tasks) :
    /\ dispatch_tasks[i].phase = "in_hook"
    /\ \E k \in dispatch_tasks[i].sent :
         futures[k].state = "FINISHED" /\ futures[k].kind = "result"

(***************************************************************************)
(* Properties of the request pipeline.                                     *)
(***************************************************************************)
\* the request a frame id belongs to
KeyOf(id) == CHOOSE k \in Keys : request_id(k) = id

\* C22: the request frames are on the transport in the order of the
\* __json_rpc calls; a response that resolves one request leaves the future,
\* the timeout handle, the waiter and the cancelable entry of every other
\* request as they were.
C22_CallOrderAndIndependence ==
  /\ [](\A i, j \in 1..Len(outbound) :
          i < j => KeyOf(outbound[i].id) < KeyOf(outbound[j].id))
  /\ [][\A k \in Keys :
          ResponseRead(k) =>
            \A other \in Keys \ {k} :
              /\ futures'[other] = futures[other]
              /\ t_handles'[other] = t_handles[other]
              /\ other \in Range(WAITERS) => other \in Range(WAITERS')
              /\ <<"t_handle", other>> \in Range(cancelable)
                   => <<"t_handle", other>> \in Range(cancelable')]_vars

\* two requests were written in call order and are outstanding; the response
\* to the second one has resolved it, the first one is pending with its
\* waiter and its armed timeout
C22_Witness ==
  /\ Len(outbound) = 2
  /\ futures[2].state = "FINISHED" /\ futures[2].kind = "result"
  /\ futures[1].state = "PENDING"
  /\ 1 \in Range(WAITERS) /\ 2 \notin Range(WAITERS)
  /\ t_handles[1] = "armed" /\ t_handles[2] = "cancelled"

(***************************************************************************)
(* Properties of the dispatch of messages without a text.                  *)
(***************************************************************************)
\* the dispatch task i takes its first step in this step
Started(i) ==
  /\ i \in 1..Len(dispatch_tasks)
  /\ dispatch_tasks[i].phase = "created"
  /\ ~\E n \in 1..Len(dispatch_tasks') :
        /\ dispatch_tasks'[n].line = dispatch_tasks[i].line
        /\ dispatch_tasks'[n].phase = "created"

\* C23: the dispatch of a data message without a text goes to the mention
\* and the catch-all tier: its first step calls a hook of one of the two
\* tiers (there is a catch-all hook in the root group).
C23_TextlessReachesHooks ==
  [][\A i \in 1..Len(dispatch_tasks) :
       (Started(i) /\ dispatch_tasks[i].envelope.dataMessage.message = None) =>
         \E n \in 1..Len(hook_calls') :
           /\ hook_calls'[n].line = dispatch_tasks[i].line
           /\ hook_calls'[n].tier \in {"mention", "message"}]_vars

(***************************************************************************)
(* Properties of the keyword hooks.                                        *)
(***************************************************************************)
\* the keyword definition registered on the root group
Registered == keyword_hooks[Root][1][1]

\* C25: the hook for "cat" is called for the sentence with the word, in
\* every setting; for "concatenate" exactly when whole_word is off; for the
\* sentence with "Cat" and for "CAT" exactly when case_sensitive is off; for
\* a text without the letters never.
C25_KeywordMatching ==
  [][\A i \in 1..Len(dispatch_tasks) :
       Started(i) =>
         LET text == dispatch_tasks[i].envelope.dataMessage.message
             fires == \E n \in 1..Len(hook_calls') :
                        /\ hook_calls'[n].line = dispatch_tasks[i].line
                        /\ hook_calls'[n].hook = "root_keyword"
         IN  /\ text = Sentence => fires
             /\ text = Concatenate => (fires <=> ~Registered[3])
             /\ text \in {Capitalised, Shout} => (fires <=> ~Registered[2])
             /\ text = Other => ~fires]_vars

\* the hook registered with the defaults was called for "I have a cat."
C25_Witness ==
  /\ Registered = <<(<<"c", "a", "t">>), FALSE, TRUE>>
  /\ \E i \in 1..Len(dispatch_tasks) :
       /\ dispatch_tasks[i].phase = "in_hook"
       /\ dispatch_tasks[i].envelope.dataMessage.message = Sentence
  /\ \E n \in 1..Len(hook_calls) : hook_calls[n].hook = "root_keyword"

\* C24: every frame on the transport is the one request of a send_message
\* call: its method is "send", its params hold the text, the account of the
\* bot and the destination, under groupId when the destination has 44
\* characters and under recipient otherwise; and a result frame with the id
\* of a waiting request and the result {} resolves it, so that the Response
\* the caller gets has the result {}.
C24_SendMessageRequest ==
  /\ [](\A i \in 1..Len(outbound) :
          LET frame == outbound[i]
              call == send_call(KeyOf(frame.id))
          IN  /\ \A j \in 1..Len(outbound) : outbound[j].id = frame.id => j = i
              /\ frame.method = "send"
              /\ frame.params.message = call.message
              /\ frame.params.account = BotAccount
              /\ IF Len(call.to) = 44
                   THEN /\ DOMAIN frame.params = {"account", "groupId", "message"}
                        /\ frame.params.groupId = call.to
                   ELSE /\ DOMAIN frame.params = {"account", "message", "recipient"}
                        /\ frame.params.recipient = call.to)
  /\ [][\A k \in Keys :
          (/\ ResponseRead(k)
           /\ ~done(k)
           /\ "error" \notin DOMAIN json_loads(Head(inbound))
           /\ json_loads(Head(inbound)).result = EmptyResult) =>
            /\ futures'[k].state = "FINISHED"
            /\ futures'[k].kind = "result"
            /\ Response(futures'[k].value).result = EmptyResult]_vars

\* the request to the account and the request to the group are on the
\* transport, and the first one is resolved to the result {}
C24_Witness ==
  /\ Len(outbound) = 2
  /\ "recipient" \in DOMAIN outbound[1].params
  /\ "groupId" \in DOMAIN outbound[2].params
  /\ futures[1].state = "FINISHED" /\ futures[1].kind = "result"
  /\ Response(futures[1].value).result = EmptyResult

\* C26: a response frame whose id no waiter has changes nothing: the waiter
\* table, the futures, the timeout handles and the cancelable list are as
\* before, and the listen loop reads on.
C26_UnmatchedResponseDropped ==
  [][(/\ FrameRead
      /\ IsResponse(json_loads(Head(inbound)))
      /\ \A k \in Range(WAITERS) : request_id(k) # json_loads(Head(inbound)).id) =>
        /\ UNCHANGED <<futures, t_handles, WAITERS, cancelable, write_tasks>>
        /\ listen_state' = "reading"]_vars

\* a response that no waiter took was read, and the request that timed out
\* still holds its TimeoutError
C26_Witness ==
  /\ \E k \in Keys :
       /\ futures[k].state = "FINISHED" /\ futures[k].kind = "TimeoutError"
       /\ t_handles[k] = "fired"
       /\ Len(outbound) = 1
  /\ WAITERS = <<>>
  /\ last_branch = "handle_response"
  /\ listen_state = "reading"

\* C27: the waiters in the table have different request ids, so that at most
\* one of them matches the id of a response that is on its way.
C27_WaiterIdsDistinct ==
  /\ \A i, j \in 1..Len(WAITERS) :
       i # j => request_id(WAITERS[i]) # request_id(WAITERS[j])
  /\ \A n \in 1..Len(inbound) :
       (json_loads_ok(inbound[n]) /\ IsResponse(json_loads(inbound[n]))) =>
         Cardinality({i \in 1..Len(WAITERS) :
                        request_id(WAITERS[i]) = json_loads(inbound[n]).id}) <= 1

\* two requests are outstanding and the response to one of them is on its way
C27_Witness ==
  /\ Len(WAITERS) = 2
  /\ \E n \in 1..Len(inbound) :
       /\ json_loads_ok(inbound[n])
       /\ json_loads(inbound[n]).id = request_id(WAITERS[2])

(***************************************************************************)
(* Properties of stop() over the dispatch of messages.                     *)
(***************************************************************************)
\* C28: every dispatch task is an entry of the cancelable list, and once a
\* stop() has completed no hook is called and no suspended hook goes on.
C28_StopCancelsDispatches ==
  /\ [](\A i \in 1..Len(dispatch_tasks) :
          \E n \in 1..Len(cancelable) :
            cancelable[n] = <<"dispatch", dispatch_tasks[i].line>>)
  /\ [][stops_completed >= 1 => hook_calls' = hook_calls]_vars

(***************************************************************************)
(* Properties of a group with several CronItems.                           *)
(***************************************************************************)
\* the times the armed timers of the item are due at
ArmedTimes(handles, item) == {handles[i].when : i \in ArmedFor(handles, item)}

\* the callbacks in flight that are not the item's
OtherTasks(tasks, g, item) == SelectSeq(tasks, LAMBDA t : t.group # g \/ t.item # item)

\* handle_callback_exception was called in this step
HandlerCalled == Len(callback_exceptions') = Len(callback_exceptions) + 1

\* the handler has refused to have the item scheduled again
RefusedItem(item) ==
  \E n \in 1..Len(callback_exceptions) :
    /\ ~callback_exceptions[n].returned
    /\ callback_exceptions[n].cb = <<"cron", item[1], item[2]>>

\* C30: handle_callback_exception is called in the step that ends a cron
\* callback, with that callback's item; in that step the armed timers of
\* every other item, in its group and in the others, are due when they were
\* and the callbacks of other items that are in flight stay as they are.
\* While the session runs, every registered item the handler has not refused
\* has an armed timer, due at an occurrence of its schedule, or a callback in
\* flight, whatever the callbacks of the other items did.
C30_CronExceptionContained ==
  /\ [][HandlerCalled =>
          \E j \in 1..Len(cron_tasks) :
            /\ Rescheduled(j)
            /\ LET t == cron_tasks[j]
               IN  /\ callback_exceptions'[Len(callback_exceptions')].cb =
                        <<"cron", t.item[1], t.item[2]>>
                   /\ OtherTasks(cron_tasks', t.group, t.item) =
                        OtherTasks(cron_tasks, t.group, t.item)
                   /\ \A g \in Groups : \A i \in 1..Len(cron_hooks[g]) :
                        (g # t.group \/ cron_hooks[g][i] # t.item) =>
                          ArmedTimes(crons'[g], cron_hooks[g][i]) =
                            ArmedTimes(crons[g], cron_hooks[g][i])]_vars
  /\ [](run_state # "idle" =>
          \A g \in Groups : \A i \in 1..Len(cron_hooks[g]) :
            LET item == cron_hooks[g][i]
            IN  /\ \A w \in ArmedTimes(crons[g], item) : w % item[1] = 0
                /\ \/ RefusedItem(item)
                   \/ ArmedFor(crons[g], item) # {}
                   \/ \E k \in 1..Len(cron_tasks) :
                        cron_tasks[k].group = g /\ cron_tasks[k].item = item)

\* the callback of root_cron, fired at 2, raised at 4 while the timer of
\* root_report, due at 3, had not run yet: that timer is out of the list and
\* still armed, and root_cron is armed for 4
C30_Witness ==
  /\ now = 4
  /\ callback_exceptions = <<[cb |-> <<"cron", 2, "root_cron">>, returned |-> TRUE]>>
  /\ ArmedTimes(crons[Root], <<3, "root_report">>) = {3}
  /\ \E i \in 1..Len(crons[Root]) :
       crons[Root][i].item = <<3, "root_report">> /\ ~crons[Root][i].listed
  /\ ArmedTimes(crons[Root], <<2, "root_cron">>) = {4}

(***************************************************************************)
(* Properties of two sessions in one process.                              *)
(***************************************************************************)
\* C29: a frame read by the listen loop of this session leaves the future
\* and the waiter of every request of the peer as they were, and a stop()
\* call of the peer returns at its guard only while a stop() of the peer
\* itself is in progress.
C29_SessionsOwnWaitersAndGuard ==
  /\ [][\A k \in peer.sent :
          FrameRead => /\ futures'[k] = futures[k]
                       /\ (k \in Range(WAITERS) => k \in Range(WAITERS'))]_vars
  /\ [][peer'.stop_refused > peer.stop_refused => peer.stop_state = "waiting"]_vars

(***************************************************************************)
(* Properties of the list of timer handles.                                *)
(***************************************************************************)
\* stop_crons of the group g was called in this step
StopCronsCalled(g) == crons' = [crons EXCEPT ![g] = stop_crons(@)] /\ UNCHANGED <<now, cron_tasks>>

\* C31: every armed timer of a group is in the list of the group, and the
\* step of a stop_crons call leaves no timer of the group armed.
C31_ArmedTimersListed ==
  /\ [](\A g \in Groups : \A i \in 1..Len(crons[g]) :
          crons[g][i].state = "armed" => crons[g][i].listed)
  /\ [][\A g \in Groups :
          StopCronsCalled(g) => \A i \in 1..Len(crons'[g]) : crons'[g][i].state # "armed"]_vars

SetsLikeADict(d, key, value) ==
  LET after == dict_set(d, key, value)
  IN  /\ \A i, j \in 1..Len(after) : after[i][1] = after[j][1] => i = j
      /\ \E i \in 1..Len(after) : after[i] = <<key, value>>
      /\ \A i \in 1..Len(d) :
           /\ after[i][1] = d[i][1]
           /\ d[i][1] # key => after[i] = d[i]
      /\ Len(after) = IF key \in dict_keys(d) THEN Len(d) ELSE Len(d) + 1

OneHookPerKey(table) == \A i, j \in 1..Len(table) : table[i][1] = table[j][1] => i = j

\* the hooks of the tier among the candidates for the message, in the order
\* in which they are tried
TriedOf(g, message, tier) ==
  LET cs == SelectSeq(group_candidates(g, message), LAMBDA c : c.tier = tier)
  IN  [i \in 1..Len(cs) |-> cs[i].hook]

\* C33: in every table that registrations lead to, a prefix, keyword or
\* mention key has one hook; setting a key, new or registered, acts as on a
\* dict; a catch-all hook is added behind those that are there, which all
\* stay; and for every message the catch-all hooks are tried in the order of
\* the list, each tier trying one hook per key.
C33_RegistrationSemantics ==
  \A g \in GroupIds :
    /\ \A cb \in Callbacks :
         /\ \A key \in PrefixKeys : SetsLikeADict(prefix_hooks[g], key, cb)
         /\ \A key \in KeywordKeys : SetsLikeADict(keyword_hooks[g], key, cb)
         /\ \A key \in MentionKeys : SetsLikeADict(mention_hooks[g], key, cb)
         /\ LET after == list_append(message_hooks[g], cb)
            IN  /\ Len(after) = Len(message_hooks[g]) + 1
                /\ SubSeq(after, 1, Len(message_hooks[g])) = message_hooks[g]
                /\ after[Len(after)] = cb
    /\ OneHookPerKey(prefix_hooks[g])
    /\ OneHookPerKey(keyword_hooks[g])
    /\ OneHookPerKey(mention_hooks[g])
    /\ \A n \in Messages :
         LET message == DataMessage(n.params.envelope)
         IN  /\ TriedOf(g, message, "message") = message_hooks[g]
             /\ Len(TriedOf(g, message, "prefix")) <= Len(prefix_hooks[g])
             /\ Len(TriedOf(g, message, "keyword")) <= Len(keyword_hooks[g])
             /\ Len(TriedOf(g, message, "account")) <= Len(mention_hooks[g])

\* both prefixes and both keyword keys are registered, in this order, and two
\* catch-all hooks, the second of them registered twice over
C33_Witness ==
  /\ prefix_hooks[Root] = << <<(<<"h", "i">>), "cb2">>, <<(<<"h">>), "cb1">> >>
  /\ Len(keyword_hooks[Root]) = 2
  /\ mention_hooks[Root] = << <<BotAccount, "cb2">> >>
  /\ message_hooks[Root] = <<"cb2", "cb2">>

(***************************************************************************)
(* Properties of the crons after stop().                                   *)
(***************************************************************************)
\* C34: once a stop() of the session has returned, no timer of a group is
\* armed and no cron callback starts.
C34_NoCronAfterStop ==
  /\ [](stops_completed >= 1 =>
          \A g \in Groups : \A i \in 1..Len(crons[g]) : crons[g][i].state # "armed")
  /\ [][stops_completed >= 1 => Len(cron_tasks') <= Len(cron_tasks)]_vars

(***************************************************************************)
(* Properties of requests whose caller gave up.                            *)
(***************************************************************************)
\* C35: a request has a waiter in the table exactly while its future is
\* pending.
C35_WaiterIffPending ==
  \A k \in Keys : k \in Range(WAITERS) <=> futures[k].state = "PENDING"

\* C36: when listen() hands handle_response a frame with the id of a request
\* that has a waiter, nothing is raised, whatever the state of the request's
\* future: the loop goes on reading and a future that was done stays as it
\* was.
C36_ResponseNeverRaises ==
  [][\A k \in Keys :
       ResponseRead(k) =>
         /\ listen_state' = "reading"
         /\ listen_error' = "none"
         /\ done(k) => futures'[k] = futures[k]]_vars

(***************************************************************************)
(* Properties of the crons over a restart.                                 *)
(***************************************************************************)
\* the callbacks of the item that are in flight
InFlight(g, item) ==
  {k \in 1..Len(cron_tasks) : cron_tasks[k].group = g /\ cron_tasks[k].item = item}

\* C37: every registered CronItem has at most one live schedule, an armed
\* timer or a callback in flight, and no two of its callbacks are started
\* for the same occurrence.
C37_OneLiveSchedule ==
  /\ [](\A g \in Groups : \A n \in 1..Len(cron_hooks[g]) :
          Cardinality(ArmedFor(crons[g], cron_hooks[g][n]))
            + Cardinality(InFlight(g, cron_hooks[g][n])) <= 1)
  /\ [][\A g \in Groups : \A i \in 1..Len(crons[g]) :
          (crons[g][i].state = "fired" /\ Len(cron_tasks') > Len(cron_tasks)) =>
            LET t == cron_tasks'[Len(cron_tasks')]
            IN  ~(t.group = g /\ t.item = crons[g][i].item /\ t.sched = crons[g][i].when)]_vars

(***************************************************************************)
(* Properties of the removal of a CronItem.                                *)
(***************************************************************************)
\* C38: a callback that is started belongs to an item that is registered in
\* its group, and a timer that is armed in the step that ends a callback is
\* armed for a registered item.
C38_RemovedCronNeverRuns ==
  /\ [][Len(cron_tasks') > Len(cron_tasks) =>
          LET t == cron_tasks'[Len(cron_tasks')]
          IN  t.item \in Range(cron_hooks[t.group])]_vars
  /\ [][\A j \in 1..Len(cron_tasks) :
          (Rescheduled(j) /\ cron_tasks[j].item \notin Range(cron_hooks[cron_tasks[j].group])) =>
            ArmedFor(crons'[cron_tasks[j].group], cron_tasks[j].item) = {}]_vars

(***************************************************************************)
(* Properties of the order of registration and write.                      *)
(***************************************************************************)
\* the request of key is written to the transport in this step
Written(key) ==
  /\ Len(outbound') = Len(outbound) + 1
  /\ outbound'[Len(outbound')].id = request_id(key)

\* C39: when the request of a key is written, its timeout has been armed
\* and its waiter is in the table, unless the timeout has fired by then; a
\* response frame that the loop reads with the id of a request finds the
\* waiter of the request, unless the request was resolved before.
C39_RegisteredBeforeWritten ==
  /\ [][\A key \in Keys :
          Written(key) =>
            /\ t_handles[key] # "none"
            /\ key \in Range(WAITERS) \/ t_handles[key] = "fired"]_vars
  /\ [][\A key \in Keys :
          (FrameRead /\ IsResponse(json_loads(Head(inbound)))
             /\ json_loads(Head(inbound)).id = request_id(key)) =>
            key \in Range(WAITERS) \/ done(key)]_vars
  /\ [](\A key \in Keys :
          (\E n \in 1..Len(outbound) : outbound[n].id = request_id(key)) =>
            key \in Range(WAITERS) \/ done(key))

\* the response to a request was handled while its write task was still
\* waiting in drain()
C39_Witness ==
  \E key \in Keys :
    /\ write_tasks[key] = "draining"
    /\ futures[key].state = "FINISHED"
    /\ futures[key].kind = "result"

(***************************************************************************)
(* Properties of the cancelable list.                                      *)
(***************************************************************************)
\* the request is outstanding: its future is pending or its write task has
\* not finished
Outstanding(key) ==
  created(key) /\ (~done(key) \/ write_tasks[key] \in {"created", "draining", "cancelling"})

\* C40: the cancelable list holds entries of outstanding requests only, so
\* it has at most two entries, the timeout handle and the write task, for
\* each of them.
C40_CancelableOnlyOutstanding ==
  /\ \A n \in 1..Len(cancelable) : Outstanding(cancelable[n][2])
  /\ Len(cancelable) <= 2 * Cardinality({key \in Keys : Outstanding(key)})

====
